---------------------------- MODULE Spec2Model ----------------------------
(***************************************************************************)
(* A model of desub-current's dynamic Value type and of its serde          *)
(* Deserializer implementations (src/desub-current/src/value/mod.rs and    *)
(* src/desub-current/src/value/deserializer.rs).                           *)
(*                                                                         *)
(* A Deserializer method ("hint") of the source either calls exactly one   *)
(* method of the visitor it was given, or returns an error.  The model     *)
(* computes that outcome as a record                                       *)
(*     [access, call, payload]                                             *)
(* where call is the visitor method ("visit_seq", "visit_u8", ...) or      *)
(* "Err", payload is what the method is given, and access names the type   *)
(* of the accessor that carries the payload.                               *)
(***************************************************************************)
EXTENDS Integers, Sequences, FiniteSets, TLC

\* The field that tags each kind of record.  TLC compares two records field
\* by field in the order the field names first occur in the module; naming
\* the tags here, first, has it tell records of different tags apart by the
\* tag, before it reaches payloads of different types.
RecordTags ==
    [access |-> "the accessor type of a visitor call",
     call |-> "the visitor method",
     kind |-> "the type a Deserializer impl is called on",
     def |-> "the ValueDef variant",
     comp |-> "the Composite variant",
     name |-> "the name of a Variant",
     prim |-> "the Primitive variant",
     ok |-> "Ok or Err",
     some |-> "Some or None",
     msg |-> "the text of an Error",
     elem |-> "the element a SeqAccess returned",
     deser |-> "the type of a primitive deserializer",
     op |-> "the Serializer method",
     method |-> "the Deserializer method",
     ty |-> "the kind of a target type",
     context |-> "the context of a Value"]

VARIABLES
    de,         \* the deserializer a hint is issued on: [kind, val]
    hint,       \* the hint issued last
    result,     \* what the core answered: a visitor call or an error
    target,     \* the target type being built (serde Deserialize side)
    decoded,    \* target runs: outcome of decoding `de` into `target`
    pieces,     \* BitVecPieces: [head, bits, data, current_field]
    yielded,    \* BitVecPieces: what each next_element_seed call returned
    tree,       \* map_context: the input Value tree
    closure,    \* map_context: the transform f
    mapped,     \* map_context: the returned tree
    serializer, \* BitVecPieces::new: the BitVecSerializer being written to
    written,    \* BitVecPieces::new: the writes made so far, <<key, value>> each
    gathered    \* BitVecPieces::new: what it returned (then replayed into result)

vars == <<de, hint, result, target, decoded, pieces, yielded, tree, closure, mapped,
          serializer, written, gathered>>

-----------------------------------------------------------------------------
(* Bounds of the enumerated inputs.                                        *)

\* longest composite enumerated
MaxLen == 3
\* longest bit sequence enumerated
MaxBits == 9
\* next_element_seed calls made after the adapter is exhausted
MaxExtraRequests == 2
\* deepest nesting of the trees given to map_context
MaxDepth == 2
\* longest composite of nested values given to a target
MaxNested == 2

\* [u8; 32]: the raw bytes of a U256 / I256
WideBytes == 32

None == [access |-> "none", call |-> "none", payload |-> <<>>]

-----------------------------------------------------------------------------
(* Generic helpers.                                                        *)

Range(s) == {s[i] : i \in 1..Len(s)}

\* every sequence over S of length at most n
SeqsUpTo(S, n) == UNION {[1..k -> S] : k \in 0..n}

-----------------------------------------------------------------------------
(* The value model (mod.rs).                                               *)

\* Primitive::Tag(v)
Prim(tag, v) == [prim |-> tag, v |-> v]

\* Composite::Named(vec of (name, value)) / Composite::Unnamed(vec of value)
Named(values) == [comp |-> "Named", values |-> values]
Unnamed(values) == [comp |-> "Unnamed", values |-> values]

\* Variant { name, values }
Variant(name, values) == [name |-> name, values |-> values]

\* BitSequence = BitVec<Lsb0, u8>: a bit offset into the first byte, a bit
\* count and the backing bytes
BitSequence(head, bits, data) == [head |-> head, bits |-> bits, data |-> data]

\* ValueDef::Composite(..) | Variant(..) | BitSequence(..) | Primitive(..)
ValueDef(tag, inner) == [def |-> tag, inner |-> inner]

\* Value { value, context }
Value(value, context) == [context |-> context, value |-> value]

\* Value::with_context
with_context(value, context) == Value(value, context)

\* Value::primitive and the value_prim_method! constructors: context ()
Value_primitive(p) == Value(ValueDef("Primitive", p), 0)
Value_u8(v) == Value_primitive(Prim("U8", v))
Value_bool(v) == Value_primitive(Prim("Bool", v))
Value_str(v) == Value_primitive(Prim("Str", v))
Value_named_composite(values) == Value(ValueDef("Composite", Named(values)), 0)
Value_unnamed_composite(values) == Value(ValueDef("Composite", Unnamed(values)), 0)
Value_variant(name, values) == Value(ValueDef("Variant", Variant(name, values)), 0)
Value_bit_sequence(bitseq) == Value(ValueDef("BitSequence", bitseq), 0)

\* Composite::len
Composite_len(c) == Len(c.values)

\* Composite::is_empty
Composite_is_empty(c) == c.values = <<>>

-----------------------------------------------------------------------------
(* Outcomes of a Deserializer method.                                      *)

\* visitor.visit_x(payload), the payload carried by an accessor of type access
Visit(access, call, payload) == [access |-> access, call |-> call, payload |-> payload]

\* Error::from_str / Error::from_string(format!(..))
Error_from_str(msg) == [access |-> "error", call |-> "Err", payload |-> [msg |-> msg, with |-> <<>>]]
Error_from_string(msg, args) == [access |-> "error", call |-> "Err", payload |-> [msg |-> msg, with |-> args]]

IsErr(r) == r.call = "Err"

\* A hint: the Deserializer method called, with its arguments
Hint(h) == [method |-> h, name |-> "", len |-> 0, fields |-> <<>>]
HintNamed(h, name) == [method |-> h, name |-> name, len |-> 0, fields |-> <<>>]
HintTuple(len) == [method |-> "tuple", name |-> "", len |-> len, fields |-> <<>>]
HintTupleStruct(name, len) == [method |-> "tuple_struct", name |-> name, len |-> len, fields |-> <<>>]
HintStruct(name, fields) == [method |-> "struct", name |-> name, len |-> 0, fields |-> fields]
HintEnum(name, variants) == [method |-> "enum", name |-> name, len |-> 0, fields |-> variants]

\* the hints whose method takes the visitor alone
ScalarHints ==
    {"bool", "i8", "i16", "i32", "i64", "i128", "u8", "u16", "u32", "u64", "u128",
     "f32", "f64", "char", "str", "string"}


-----------------------------------------------------------------------------
(* impl Deserializer for Primitive (deserializer.rs 651-689).              *)

\* a variant of Primitive_deserialize_any that widens the small unsigned
\* integers to the u64 callback
Primitive_deserialize_any_widening(p) ==
    CASE p.prim \in {"U8", "U16", "U32"} -> Visit("scalar", "visit_u64", p.v)
      [] p.prim = "Bool" -> Visit("scalar", "visit_bool", p.v)
      [] p.prim = "Char" -> Visit("scalar", "visit_char", p.v)
      [] p.prim = "Str"  -> Visit("scalar", "visit_string", p.v)
      [] p.prim = "U64"  -> Visit("scalar", "visit_u64", p.v)
      [] p.prim = "U128" -> Visit("scalar", "visit_u128", p.v)
      [] p.prim \in {"U256", "I256"} -> Visit("scalar", "visit_bytes", p.v)
      [] p.prim = "I8"   -> Visit("scalar", "visit_i8", p.v)
      [] p.prim = "I16"  -> Visit("scalar", "visit_i16", p.v)
      [] p.prim = "I32"  -> Visit("scalar", "visit_i32", p.v)
      [] p.prim = "I64"  -> Visit("scalar", "visit_i64", p.v)
      [] p.prim = "I128" -> Visit("scalar", "visit_i128", p.v)

Primitive_deserialize_any(p) ==
    CASE p.prim = "Bool" -> Visit("scalar", "visit_bool", p.v)
      [] p.prim = "Char" -> Visit("scalar", "visit_char", p.v)
      [] p.prim = "Str"  -> Visit("scalar", "visit_string", p.v)
      [] p.prim = "U8"   -> Visit("scalar", "visit_u8", p.v)
      [] p.prim = "U16"  -> Visit("scalar", "visit_u16", p.v)
      [] p.prim = "U32"  -> Visit("scalar", "visit_u32", p.v)
      [] p.prim = "U64"  -> Visit("scalar", "visit_u64", p.v)
      [] p.prim = "U128" -> Visit("scalar", "visit_u128", p.v)
      [] p.prim = "U256" -> Visit("scalar", "visit_bytes", p.v)
      [] p.prim = "I8"   -> Visit("scalar", "visit_i8", p.v)
      [] p.prim = "I16"  -> Visit("scalar", "visit_i16", p.v)
      [] p.prim = "I32"  -> Visit("scalar", "visit_i32", p.v)
      [] p.prim = "I64"  -> Visit("scalar", "visit_i64", p.v)
      [] p.prim = "I128" -> Visit("scalar", "visit_i128", p.v)
      [] p.prim = "I256" -> Visit("scalar", "visit_bytes", p.v)

\* SeqDeserializer over Some(self): one element, the primitive itself
Primitive_deserialize_newtype_struct(p, name) ==
    Visit("SeqDeserializer", "visit_seq", <<p>>)

Primitive_forward_to_deserialize_any ==
    ScalarHints \cup
    {"bytes", "byte_buf", "option", "unit", "unit_struct", "seq", "tuple",
     "tuple_struct", "map", "struct", "enum", "identifier", "ignored_any"}

\* a variant of Primitive_deserialize that answers an option hint with the
\* some callback around the primitive
Primitive_deserialize_option_some(p, h) ==
    CASE h.method = "any" -> Primitive_deserialize_any(p)
      [] h.method = "newtype_struct" -> Primitive_deserialize_newtype_struct(p, h.name)
      [] h.method = "option" -> Visit("Primitive", "visit_some", p)
      [] h.method \in Primitive_forward_to_deserialize_any -> Primitive_deserialize_any(p)

Primitive_deserialize(p, h) ==
    CASE h.method = "any" -> Primitive_deserialize_any(p)
      [] h.method = "newtype_struct" -> Primitive_deserialize_newtype_struct(p, h.name)
      [] h.method \in Primitive_forward_to_deserialize_any -> Primitive_deserialize_any(p)

-----------------------------------------------------------------------------
(* impl Deserializer for Composite (deserializer.rs 361-495).              *)

\* |(_, v)| v
DropName(entry) == entry[2]

\* values.into_iter().map(|(_, v)| v)
DropNames(values) == [i \in 1..Len(values) |-> DropName(values[i])]

\* a variant of Composite_deserialize_any that hands over a Named composite
\* as a sequence, its names dropped
Composite_deserialize_any_positional(c) ==
    IF c.comp = "Named"
    THEN Visit("SeqDeserializer", "visit_seq", DropNames(c.values))
    ELSE Visit("SeqDeserializer", "visit_seq", c.values)

Composite_deserialize_any(c) ==
    IF c.comp = "Named"
    THEN Visit("MapDeserializer", "visit_map", c.values)
    ELSE Visit("SeqDeserializer", "visit_seq", c.values)

\* a variant of Composite_deserialize_seq that keeps the names of a Named
\* composite, as deserialize_any does
Composite_deserialize_seq_keeping_names(c) ==
    IF c.comp = "Named"
    THEN Visit("MapDeserializer", "visit_map", c.values)
    ELSE Visit("SeqDeserializer", "visit_seq", c.values)

Composite_deserialize_seq(c) ==
    IF c.comp = "Named"
    THEN Visit("SeqDeserializer", "visit_seq", DropNames(c.values))
    ELSE Visit("SeqDeserializer", "visit_seq", c.values)

\* a variant of Composite_deserialize_tuple that only rejects a composite
\* shorter than the tuple
Composite_deserialize_tuple_at_least(c, len) ==
    IF Len(c.values) < len
    THEN Error_from_string(
           "Cannot deserialize composite of length {} into tuple of length {}",
           <<Len(c.values), len>>)
    ELSE Visit("SeqDeserializer", "visit_seq",
               IF c.comp = "Named" THEN DropNames(c.values) ELSE c.values)

Composite_deserialize_tuple(c, len) ==
    IF c.comp = "Named"
    THEN IF Len(c.values) /= len
         THEN Error_from_string(
                "Cannot deserialize composite of length {} into tuple of length {}",
                <<Len(c.values), len>>)
         ELSE Visit("SeqDeserializer", "visit_seq", DropNames(c.values))
    ELSE IF Len(c.values) /= len
         THEN Error_from_string(
                "Cannot deserialize composite of length {} into tuple of length {}",
                <<Len(c.values), len>>)
         ELSE Visit("SeqDeserializer", "visit_seq", c.values)

Composite_deserialize_tuple_struct(c, name, len) ==
    Composite_deserialize_tuple(c, len)

\* a variant of Composite_deserialize_unit that takes a composite of any
\* length for a unit
Composite_deserialize_unit_any_length(c) ==
    Visit("unit", "visit_unit", <<>>)

Composite_deserialize_unit(c) ==
    IF Composite_is_empty(c)
    THEN Visit("unit", "visit_unit", <<>>)
    ELSE Error_from_str("Cannot deserialize non-empty Composite into a unit value")

Composite_deserialize_unit_struct(c, name) ==
    Composite_deserialize_unit(c)

\* a variant of Composite_deserialize_newtype_struct that unpacks the
\* composite's own elements into the sequence
Composite_deserialize_newtype_struct_unpacking(c, name) ==
    Visit("SeqDeserializer", "visit_seq",
          IF c.comp = "Named" THEN DropNames(c.values) ELSE c.values)

\* SeqDeserializer over Some(self): one element, the composite itself
Composite_deserialize_newtype_struct(c, name) ==
    Visit("SeqDeserializer", "visit_seq", <<c>>)

\* if let ValueDef::Primitive(Primitive::U8(byte)) = v.value
IsU8(v) == v.value.def = "Primitive" /\ v.value.inner.prim = "U8"

ByteOf(v) == v.value.inner.v

BytesOf(values) == [i \in 1..Len(values) |-> ByteOf(values[i])]

\* a variant of Composite_deserialize_byte_buf that leaves out the elements
\* that are no U8 instead of failing
Composite_deserialize_byte_buf_skipping(c) ==
    LET vals == IF c.comp = "Named" THEN DropNames(c.values) ELSE c.values
    IN  Visit("bytes", "visit_byte_buf", BytesOf(SelectSeq(vals, IsU8)))

Composite_deserialize_byte_buf(c) ==
    LET vals == IF c.comp = "Named" THEN DropNames(c.values) ELSE c.values
    IN  IF \A i \in 1..Len(vals) : IsU8(vals[i])
        THEN Visit("bytes", "visit_byte_buf", BytesOf(vals))
        ELSE Error_from_str("Cannot deserialize composite that is not entirely U8's into bytes")

Composite_deserialize_bytes(c) ==
    Composite_deserialize_byte_buf(c)

Composite_forward_to_deserialize_any ==
    ScalarHints \cup {"option", "struct", "map", "enum", "identifier", "ignored_any"}


\* a variant of Composite_deserialize that refuses a scalar hint instead of
\* forwarding it to deserialize_any
Composite_deserialize_refusing_scalars(c, h) ==
    CASE h.method = "any" -> Composite_deserialize_any(c)
      [] h.method = "seq" -> Composite_deserialize_seq(c)
      [] h.method = "tuple" -> Composite_deserialize_tuple(c, h.len)
      [] h.method = "tuple_struct" -> Composite_deserialize_tuple_struct(c, h.name, h.len)
      [] h.method = "unit" -> Composite_deserialize_unit(c)
      [] h.method = "unit_struct" -> Composite_deserialize_unit_struct(c, h.name)
      [] h.method = "newtype_struct" -> Composite_deserialize_newtype_struct(c, h.name)
      [] h.method = "byte_buf" -> Composite_deserialize_byte_buf(c)
      [] h.method = "bytes" -> Composite_deserialize_bytes(c)
      [] h.method \in ScalarHints ->
            Error_from_string("Cannot deserialize Composite into a {}", <<h.method>>)
      [] h.method \in Composite_forward_to_deserialize_any -> Composite_deserialize_any(c)

\* a variant of Composite_deserialize that refuses a map hint on an Unnamed
\* composite instead of forwarding it to deserialize_any
Composite_deserialize_map_named_only(c, h) ==
    CASE h.method = "any" -> Composite_deserialize_any(c)
      [] h.method = "seq" -> Composite_deserialize_seq(c)
      [] h.method = "tuple" -> Composite_deserialize_tuple(c, h.len)
      [] h.method = "tuple_struct" -> Composite_deserialize_tuple_struct(c, h.name, h.len)
      [] h.method = "unit" -> Composite_deserialize_unit(c)
      [] h.method = "unit_struct" -> Composite_deserialize_unit_struct(c, h.name)
      [] h.method = "newtype_struct" -> Composite_deserialize_newtype_struct(c, h.name)
      [] h.method = "byte_buf" -> Composite_deserialize_byte_buf(c)
      [] h.method = "bytes" -> Composite_deserialize_bytes(c)
      [] h.method = "map" /\ c.comp = "Unnamed" ->
            Error_from_str("Cannot deserialize unnamed Composite into a map")
      [] h.method \in Composite_forward_to_deserialize_any -> Composite_deserialize_any(c)

Composite_deserialize(c, h) ==
    CASE h.method = "any" -> Composite_deserialize_any(c)
      [] h.method = "seq" -> Composite_deserialize_seq(c)
      [] h.method = "tuple" -> Composite_deserialize_tuple(c, h.len)
      [] h.method = "tuple_struct" -> Composite_deserialize_tuple_struct(c, h.name, h.len)
      [] h.method = "unit" -> Composite_deserialize_unit(c)
      [] h.method = "unit_struct" -> Composite_deserialize_unit_struct(c, h.name)
      [] h.method = "newtype_struct" -> Composite_deserialize_newtype_struct(c, h.name)
      [] h.method = "byte_buf" -> Composite_deserialize_byte_buf(c)
      [] h.method = "bytes" -> Composite_deserialize_bytes(c)
      [] h.method \in Composite_forward_to_deserialize_any -> Composite_deserialize_any(c)

-----------------------------------------------------------------------------
(* impl VariantAccess for Composite, impl EnumAccess for Variant            *)
(* (deserializer.rs 506-533, 636-649).                                      *)

\* a variant of Composite_unit_variant that takes only an empty Unnamed
\* composite for a unit
Composite_unit_variant_unnamed_only(c) ==
    IF c.comp = "Unnamed" /\ Composite_is_empty(c)
    THEN Visit("unit", "visit_unit", <<>>)
    ELSE Error_from_str("Cannot deserialize non-empty Composite into a unit value")

\* Deserialize::deserialize(self) for (): deserialize_unit
Composite_unit_variant(c) == Composite_deserialize_unit(c)


\* a variant of Composite_tuple_variant that falls back to the plain
\* sequence when the length check fails
Composite_tuple_variant_falling_back(c, len) ==
    IF Len(c.values) /= len
    THEN Composite_deserialize_seq(c)
    ELSE Composite_deserialize_tuple(c, len)

Composite_tuple_variant(c, len) == Composite_deserialize_tuple(c, len)

\* a variant of Composite_struct_variant that takes the fields as a tuple
\* of the declared length
Composite_struct_variant_exact(c, fields) == Composite_deserialize_tuple(c, Len(fields))

Composite_struct_variant(c, fields) == Composite_deserialize_any(c)

\* seed.deserialize(name).map(|name| (name, values))
Variant_variant_seed(v) == <<v.name, v.values>>

-----------------------------------------------------------------------------
(* impl Deserializer for Variant (deserializer.rs 535-624).                *)

\* visitor.visit_enum(self): the variant is its own EnumAccess
Variant_deserialize_any(v) ==
    Visit("EnumAccess", "visit_enum", v)

\* a variant of Variant_deserialize_enum that refuses a variant whose name
\* is not among the case names of the hint
Variant_deserialize_enum_validating(v, name, variants) ==
    IF \E i \in 1..Len(variants) : variants[i] = v.name
    THEN Visit("EnumAccess", "visit_enum", v)
    ELSE Error_from_string("unknown variant {}", <<v.name>>)

Variant_deserialize_enum(v, name, variants) ==
    Visit("EnumAccess", "visit_enum", v)

\* SeqDeserializer over Some(self): one element, the variant itself
Variant_deserialize_newtype_struct(v, name) ==
    Visit("SeqDeserializer", "visit_seq", <<v>>)

\* a variant of Variant_deserialize_tuple that checks no length
Variant_deserialize_tuple_unchecked(v, len) == Composite_deserialize_seq(v.values)

Variant_deserialize_tuple(v, len) == Composite_deserialize_tuple(v.values, len)

Variant_deserialize_tuple_struct(v, name, len) ==
    Composite_deserialize_tuple_struct(v.values, name, len)

Variant_deserialize_unit_struct(v, name) ==
    Composite_deserialize_unit_struct(v.values, name)

Variant_deserialize_unit(v) == Composite_deserialize_unit(v.values)

Variant_deserialize_struct(v, name, fields) ==
    Composite_deserialize(v.values, HintStruct(name, fields))

Variant_deserialize_map(v) == Composite_deserialize(v.values, Hint("map"))

Variant_deserialize_seq(v) == Composite_deserialize_seq(v.values)

Variant_forward_to_deserialize_any ==
    ScalarHints \cup {"bytes", "byte_buf", "option", "identifier", "ignored_any"}

Variant_deserialize(v, h) ==
    CASE h.method = "any" -> Variant_deserialize_any(v)
      [] h.method = "enum" -> Variant_deserialize_enum(v, h.name, h.fields)
      [] h.method = "newtype_struct" -> Variant_deserialize_newtype_struct(v, h.name)
      [] h.method = "tuple" -> Variant_deserialize_tuple(v, h.len)
      [] h.method = "tuple_struct" -> Variant_deserialize_tuple_struct(v, h.name, h.len)
      [] h.method = "unit_struct" -> Variant_deserialize_unit_struct(v, h.name)
      [] h.method = "unit" -> Variant_deserialize_unit(v)
      [] h.method = "struct" -> Variant_deserialize_struct(v, h.name, h.fields)
      [] h.method = "map" -> Variant_deserialize_map(v)
      [] h.method = "seq" -> Variant_deserialize_seq(v)
      [] h.method \in Variant_forward_to_deserialize_any -> Variant_deserialize_any(v)

-----------------------------------------------------------------------------
(* BitVecPieces::new and its BitVecSerializer (deserializer.rs 769-1000).  *)

\* Option<T>
Some(v) == [some |-> TRUE, v |-> v]
NoneOpt == [some |-> FALSE, v |-> 0]

\* a call made on the serializer while a bit vector serializes itself
Call(op, key, v) == [op |-> op, key |-> key, v |-> v]

RECURSIVE ElementCalls(_)
\* SerializeSeq::serialize_element hands each byte back to serialize_u8
ElementCalls(data) ==
    IF data = <<>> THEN <<>>
    ELSE <<Call("serialize_u8", "", Head(data))>> \o ElementCalls(Tail(data))

\* bitvec's Serialize impl, which is no code of this repository and is
\* taken from section 4.5 of the specification: a struct of three fields
\* written in the order head: u8, bits: u64 and data: the backing bytes as
\* a sequence, under the three names BitVecSerializer looks for
BitSequence_serialize(bit_vec) ==
    <<Call("serialize_struct", "", 0),
      Call("serialize_field", "head", 0), Call("serialize_u8", "", bit_vec.head),
      Call("serialize_field", "bits", 0), Call("serialize_u64", "", bit_vec.bits),
      Call("serialize_field", "data", 0), Call("serialize_seq", "", 0)>>
    \o ElementCalls(bit_vec.data)
    \o <<Call("SerializeSeq_end", "", 0), Call("SerializeStruct_end", "", 0)>>

\* BitVecSerializer { head: None, bits: None, data: Vec::new(), current_field: None }
BitVecSerializer_new ==
    [head |-> NoneOpt, bits |-> NoneOpt, data |-> <<>>, current_field |-> "None",
     error |-> None]

Fail(se, err) == [se EXCEPT !.error = err]

serialize_field(se, key) ==
    CASE key = "head" -> [se EXCEPT !.current_field = "Head"]
      [] key = "bits" -> [se EXCEPT !.current_field = "Bits"]
      [] key = "data" -> [se EXCEPT !.current_field = "Data"]
      [] OTHER -> Fail(se, Error_from_string(
                    "BitVec serialization encountered unexpected field '{}'", <<key>>))

serialize_seq(se) ==
    IF se.current_field = "Data" THEN se
    ELSE Fail(se, Error_from_str(
            "BitVec serialization only expects serialize_seq to be called for 'data' prop"))


\* a variant of serialize_u8 that keeps only the byte written last to data
serialize_u8_overwriting(se, v) ==
    CASE se.current_field = "Head" -> [se EXCEPT !.head = Some(v)]
      [] se.current_field = "Data" -> [se EXCEPT !.data = <<v>>]
      [] OTHER -> Fail(se, Error_from_str(
            "BitVec serialization only expects serialize_u8 to be called for 'head' prop"))

serialize_u8(se, v) ==
    CASE se.current_field = "Head" -> [se EXCEPT !.head = Some(v)]
      [] se.current_field = "Data" -> [se EXCEPT !.data = Append(se.data, v)]
      [] OTHER -> Fail(se, Error_from_str(
            "BitVec serialization only expects serialize_u8 to be called for 'head' prop"))

\* a variant of serialize_u64 that takes the count under whatever field is
\* being written
serialize_u64_any_field(se, v) ==
    IF se.current_field /= "None" THEN [se EXCEPT !.bits = Some(v)]
    ELSE Fail(se, Error_from_str(
            "BitVec serialization only expects serialize_u64 to be called for 'len' prop"))

serialize_u64(se, v) ==
    IF se.current_field = "Bits" THEN [se EXCEPT !.bits = Some(v)]
    ELSE Fail(se, Error_from_str(
            "BitVec serialization only expects serialize_u64 to be called for 'len' prop"))

\* the Serializer methods that are implemented to refuse (888-986)
Serializer_unsupported ==
    {"serialize_bool", "serialize_i8", "serialize_i16", "serialize_i32", "serialize_i64",
     "serialize_u16", "serialize_u32", "serialize_f32", "serialize_f64", "serialize_char",
     "serialize_str", "serialize_bytes", "serialize_none", "serialize_some",
     "serialize_unit", "serialize_unit_struct", "serialize_unit_variant",
     "serialize_newtype_struct", "serialize_newtype_variant", "serialize_tuple",
     "serialize_tuple_struct", "serialize_tuple_variant", "serialize_map",
     "serialize_struct_variant"}

\* one call on the serializer; an error ends the serialization (the ? operator)
BitVecSerializer_call(se, c) ==
    IF IsErr(se.error) THEN se
    ELSE CASE c.op = "serialize_struct" -> se
           [] c.op = "serialize_field" -> serialize_field(se, c.key)
           [] c.op = "serialize_seq" -> serialize_seq(se)
           [] c.op = "serialize_u8" -> serialize_u8(se, c.v)
           [] c.op = "serialize_u64" -> serialize_u64(se, c.v)
           [] c.op = "SerializeSeq_end" -> se
           [] c.op = "SerializeStruct_end" -> [se EXCEPT !.current_field = "None"]
           \* not implemented: serde's provided methods, ser::Error::custom(..)
           [] c.op = "serialize_i128" ->
                Fail(se, Error_from_string("i128 is not supported", <<>>))
           [] c.op = "serialize_u128" ->
                Fail(se, Error_from_string("u128 is not supported", <<>>))
           [] c.op \in Serializer_unsupported ->
                Fail(se, Error_from_str("Unsupported BitVec serialization method"))

RECURSIVE BitVecSerializer_run(_, _)
BitVecSerializer_run(se, calls) ==
    IF calls = <<>> THEN se
    ELSE BitVecSerializer_run(BitVecSerializer_call(se, Head(calls)), Tail(calls))

\* a variant of BitVecPieces_gather that also requires some data byte to
\* have been written
BitVecPieces_gather_requiring_data(se) ==
    IF IsErr(se.error) THEN [ok |-> FALSE, val |-> se.error]
    ELSE IF se.bits.some /\ se.head.some /\ se.data /= <<>>
    THEN [ok |-> TRUE,
          val |-> [head |-> se.head.v, bits |-> se.bits.v, data |-> se.data,
                   current_field |-> "Head"]]
    ELSE [ok |-> FALSE,
          val |-> Error_from_str(
            "Could not gather together the BitVec pieces required during serialization")]

\* the match on the finished serializer: Ok(BitVecPieces) or Err
BitVecPieces_gather(se) ==
    IF IsErr(se.error) THEN [ok |-> FALSE, val |-> se.error]
    ELSE IF se.bits.some /\ se.head.some
    THEN [ok |-> TRUE,
          val |-> [head |-> se.head.v, bits |-> se.bits.v, data |-> se.data,
                   current_field |-> "Head"]]
    ELSE [ok |-> FALSE,
          val |-> Error_from_str(
            "Could not gather together the BitVec pieces required during serialization")]

BitVecPieces_new(bit_vec) ==
    BitVecPieces_gather(BitVecSerializer_run(BitVecSerializer_new, BitSequence_serialize(bit_vec)))

\* impl Deserializer for BitVecPieces: visitor.visit_seq(self)
BitVecPieces_deserialize_any(p) == Visit("BitVecPieces", "visit_seq", p)

\* impl SeqAccess for BitVecPieces: [element returned, adapter afterwards];
\* an element is the deserializer handed to the seed, NoneOpt is Ok(None)
BitVecPieces_next_element_seed(p) ==
    CASE p.current_field = "Head" ->
            [elem |-> Some([deser |-> "u8", v |-> p.head]),
             next |-> [p EXCEPT !.current_field = "Bits"]]
      [] p.current_field = "Bits" ->
            [elem |-> Some([deser |-> "u64", v |-> p.bits]),
             next |-> [p EXCEPT !.current_field = "Data"]]
      [] p.current_field = "Data" ->
            [elem |-> Some([deser |-> "Vec<u8>", v |-> p.data]),
             next |-> [p EXCEPT !.data = <<>>, !.current_field = "None"]]
      [] p.current_field = "None" ->
            [elem |-> NoneOpt, next |-> p]

-----------------------------------------------------------------------------
(* impl Deserializer for ValueDef (deserializer.rs 189-352).               *)

\* delegate_except_bitseq!: the bit sequence answer is bitseq, the other
\* shapes answer the same hint themselves
delegate_except_bitseq(d, h, bitseq) ==
    CASE d.def = "BitSequence" -> bitseq
      [] d.def = "Composite" -> Composite_deserialize(d.inner, h)
      [] d.def = "Variant" -> Variant_deserialize(d.inner, h)
      [] d.def = "Primitive" -> Primitive_deserialize(d.inner, h)

\* BitVecPieces::new(seq)?.deserialize_any(visitor), made being what
\* BitVecPieces::new returned: its error is returned as it is, before any
\* call on the visitor
BitSequence_deserialize_any(made) ==
    IF made.ok THEN BitVecPieces_deserialize_any(made.val) ELSE made.val

ValueDef_deserialize_any(d) ==
    delegate_except_bitseq(d, Hint("any"),
        BitSequence_deserialize_any(BitVecPieces_new(d.inner)))

ValueDef_deserialize_newtype_struct(d, name) ==
    delegate_except_bitseq(d, HintNamed("newtype_struct", name),
        Error_from_str("Cannot deserialize BitSequence into a newtype struct"))

ValueDef_deserialize_tuple(d, len) ==
    delegate_except_bitseq(d, HintTuple(len),
        Error_from_str("Cannot deserialize BitSequence into a tuple"))

ValueDef_deserialize_tuple_struct(d, name, len) ==
    delegate_except_bitseq(d, HintTupleStruct(name, len),
        Error_from_str("Cannot deserialize BitSequence into a tuple struct"))

ValueDef_deserialize_unit(d) ==
    delegate_except_bitseq(d, Hint("unit"),
        Error_from_str("Cannot deserialize BitSequence into a ()"))

ValueDef_deserialize_unit_struct(d, name) ==
    delegate_except_bitseq(d, HintNamed("unit_struct", name),
        Error_from_string("Cannot deserialize BitSequence into the unit struct {}", <<name>>))

ValueDef_deserialize_enum(d, name, variants) ==
    delegate_except_bitseq(d, HintEnum(name, variants),
        Error_from_string("Cannot deserialize BitSequence into the enum {}", <<name>>))

ValueDef_deserialize_bytes(d) ==
    delegate_except_bitseq(d, Hint("bytes"),
        Error_from_str("Cannot deserialize BitSequence into raw bytes"))

ValueDef_deserialize_byte_buf(d) ==
    delegate_except_bitseq(d, Hint("byte_buf"),
        Error_from_str("Cannot deserialize BitSequence into raw bytes"))

\* a variant of ValueDef_deserialize_seq that lets a bit sequence answer
\* with its replay
ValueDef_deserialize_seq_replaying(d) ==
    delegate_except_bitseq(d, Hint("seq"),
        BitSequence_deserialize_any(BitVecPieces_new(d.inner)))

ValueDef_deserialize_seq(d) ==
    delegate_except_bitseq(d, Hint("seq"),
        Error_from_str("Cannot deserialize BitSequence into a sequence"))

ValueDef_deserialize_map(d) ==
    delegate_except_bitseq(d, Hint("map"),
        Error_from_str("Cannot deserialize BitSequence into a map"))

ValueDef_forward_to_deserialize_any ==
    ScalarHints \cup {"option", "struct", "identifier", "ignored_any"}

ValueDef_deserialize(d, h) ==
    CASE h.method = "any" -> ValueDef_deserialize_any(d)
      [] h.method = "newtype_struct" -> ValueDef_deserialize_newtype_struct(d, h.name)
      [] h.method = "tuple" -> ValueDef_deserialize_tuple(d, h.len)
      [] h.method = "tuple_struct" -> ValueDef_deserialize_tuple_struct(d, h.name, h.len)
      [] h.method = "unit" -> ValueDef_deserialize_unit(d)
      [] h.method = "unit_struct" -> ValueDef_deserialize_unit_struct(d, h.name)
      [] h.method = "enum" -> ValueDef_deserialize_enum(d, h.name, h.fields)
      [] h.method = "bytes" -> ValueDef_deserialize_bytes(d)
      [] h.method = "byte_buf" -> ValueDef_deserialize_byte_buf(d)
      [] h.method = "seq" -> ValueDef_deserialize_seq(d)
      [] h.method = "map" -> ValueDef_deserialize_map(d)
      [] h.method \in ValueDef_forward_to_deserialize_any -> ValueDef_deserialize_any(d)

-----------------------------------------------------------------------------
(* impl Deserializer for Value (deserializer.rs 105-187): every method is  *)
(* self.value.method(..), the context is dropped.                          *)

Value_deserialize(v, h) == ValueDef_deserialize(v.value, h)

\* the Deserializer impl of whatever is being decoded
Deserialize_on(d, h) ==
    CASE d.kind = "Value" -> Value_deserialize(d.val, h)
      [] d.kind = "ValueDef" -> ValueDef_deserialize(d.val, h)
      [] d.kind = "Composite" -> Composite_deserialize(d.val, h)
      [] d.kind = "Variant" -> Variant_deserialize(d.val, h)
      [] d.kind = "Primitive" -> Primitive_deserialize(d.val, h)

-----------------------------------------------------------------------------
(* The targets of the tests: types with #[derive(Deserialize)] and the      *)
(* serde impls for u8, bool, String, () and IgnoredAny they are made of.    *)
(* A target is                                                              *)
(*   [ty |-> "struct", name, fields |-> <<[name, ty], ..>>, cases |-> <<>>] *)
(*   [ty |-> "enum", name, fields |-> <<>>,                                 *)
(*    cases |-> <<[name, style, fields], ..>>]                              *)
(* and decoding gives Ok(value) or Err(error).                              *)

\* Result::Ok / Result::Err
Ok(val) == [ok |-> TRUE, val |-> val]
Failed(err) == [ok |-> FALSE, val |-> err]

\* the first failure among the results, Ok(val) if there is none
FirstFailure(results, val) ==
    IF \E i \in 1..Len(results) : ~results[i].ok
    THEN results[CHOOSE i \in 1..Len(results) :
                    ~results[i].ok /\ \A k \in 1..(i - 1) : results[k].ok]
    ELSE Ok(val)

\* what reading one thing after another with the ? operator gives (each
\* next_element()?, each field of a derived visit_seq): everything that
\* was read, or the first failure
Collected(got) == FirstFailure(got, [i \in 1..Len(got) |-> got[i].val])

\* impl de::Error for Error: custom(msg) is Error::from_string(msg.to_string()).
\* The errors serde's visitors raise come through it, as the text serde
\* prints.
Error_custom(msg) == Error_from_string(msg, <<>>)

\* `x`, as serde's messages quote a value or a name
Backquoted(x) == SubSeq("`'", 1, 1) \o x \o SubSeq("`'", 1, 1)

\* the integer callbacks the visitor of an integer type converts from
IntegerCalls ==
    {"visit_u8", "visit_u16", "visit_u32", "visit_u64",
     "visit_i8", "visit_i16", "visit_i32", "visit_i64"}

\* de::Unexpected, as the provided method of the Visitor trait for the
\* callback r names what it was given: visit_i8..visit_i32 go to visit_i64,
\* visit_u8..visit_u32 to visit_u64, visit_char and visit_string to
\* visit_str, visit_byte_buf to visit_bytes.  Unexpected::Str is printed
\* with {:?}: Escaped(s) is the Debug form of a str between its quotes.  A
\* double quote, a backslash, a line feed, a carriage return and a tab get
\* a backslash, the character 0 is \0, a single quote stays as it is, and
\* every other character that is not printable is \u{..} with its code in
\* hexadecimal.  A string here holds characters up to code 255: Unprintable
\* lists, as they are, those of them that are not printable (the control
\* characters 1..31 and 127..159, the no-break space 160 and the soft
\* hyphen 173) without the four named above, and Codes their codes.
Unexpected_of(r) ==
    LET Unprintable == " ­"
        Codes == <<1, 2, 3, 4, 5, 6, 7, 8, 11, 12, 14, 15, 16, 17, 18, 19, 20,
                21, 22, 23, 24, 25, 26, 27, 28, 29, 30, 31, 127, 128, 129,
                130, 131, 132, 133, 134, 135, 136, 137, 138, 139, 140, 141,
                142, 143, 144, 145, 146, 147, 148, 149, 150, 151, 152, 153,
                154, 155, 156, 157, 158, 159, 160, 173>>
        Hex(n) == SubSeq("0123456789abcdef", n + 1, n + 1)
        Graphic == " !#$%&'()*+,-./0123456789:;<=>?@ABCDEFGHIJKLMNOPQRSTUVWXYZ[]^_"
                   \o SubSeq("`'", 1, 1) \o "abcdefghijklmnopqrstuvwxyz{|}~"
                   \o "¡¢£¤¥¦§¨©ª«¬®¯°±²³´µ¶·¸¹º»¼½¾¿ÀÁÂÃÄÅÆÇÈÉÊËÌÍÎÏÐÑÒÓÔÕÖ×ØÙÚÛÜÝÞßàáâãäåæçèéêëìíîïðñòóôõö÷øùúûüýþÿ"
        In(c, s) == \E i \in 1..Len(s) : SubSeq(s, i, i) = c
        Unicode(c) ==
            LET n == Codes[CHOOSE i \in 1..Len(Unprintable) : SubSeq(Unprintable, i, i) = c]
            IN  "\\u{" \o (IF n < 16 THEN Hex(n) ELSE Hex(n \div 16) \o Hex(n % 16)) \o "}"
        RECURSIVE Escaped(_)
        Escaped(s) ==
            IF Len(s) = 0 THEN ""
            ELSE LET c == SubSeq(s, 1, 1)
                     e == CASE c = "\"" -> "\\\""
                            [] c = "\\" -> "\\\\"
                            [] c = "\n" -> "\\n"
                            [] c = "\r" -> "\\r"
                            [] c = "\t" -> "\\t"
                            [] In(c, Unprintable) -> Unicode(c)
                            [] In(c, Graphic) -> c
                            [] OTHER -> "\\0"
                 IN  e \o Escaped(SubSeq(s, 2, Len(s)))
    IN  CASE r.call = "visit_bool" ->
                "boolean " \o Backquoted(IF r.payload THEN "true" ELSE "false")
          [] r.call \in IntegerCalls -> "integer " \o Backquoted(ToString(r.payload))
          [] r.call = "visit_i128" ->
                "integer " \o Backquoted(ToString(r.payload)) \o " as i128"
          [] r.call = "visit_u128" ->
                "integer " \o Backquoted(ToString(r.payload)) \o " as u128"
          [] r.call \in {"visit_char", "visit_str", "visit_string"} ->
                "string \"" \o Escaped(r.payload) \o "\""
          [] r.call \in {"visit_bytes", "visit_byte_buf"} -> "byte array"
          [] r.call \in {"visit_none", "visit_some"} -> "Option value"
          [] r.call = "visit_unit" -> "unit value"
          [] r.call = "visit_newtype_struct" -> "newtype struct"
          [] r.call = "visit_seq" -> "sequence"
          [] r.call = "visit_map" -> "map"
          [] r.call = "visit_enum" -> "enum"

\* de::Error::invalid_type / invalid_value / invalid_length
Error_invalid_type(unexp, exp) ==
    Error_custom("invalid type: " \o unexp \o ", expected " \o exp)
Error_invalid_value(unexp, exp) ==
    Error_custom("invalid value: " \o unexp \o ", expected " \o exp)
Error_invalid_length(len, exp) ==
    Error_custom("invalid length " \o ToString(len) \o ", expected " \o exp)

RECURSIVE Utf8Valid(_)
\* str::from_utf8(bytes).is_ok()
Utf8Valid(bytes) ==
    IF bytes = <<>> THEN TRUE
    ELSE LET n == Len(bytes)
             Cont(i) == i <= n /\ bytes[i] \in 128..191
             Second(lo, hi) == n >= 2 /\ bytes[2] \in lo..hi
             width ==
                CASE bytes[1] < 128 -> 1
                  [] bytes[1] \in 194..223 /\ Cont(2) -> 2
                  [] bytes[1] = 224 /\ Second(160, 191) /\ Cont(3) -> 3
                  [] bytes[1] \in (225..236) \cup {238, 239} /\ Cont(2) /\ Cont(3) -> 3
                  [] bytes[1] = 237 /\ Second(128, 159) /\ Cont(3) -> 3
                  [] bytes[1] = 240 /\ Second(144, 191) /\ Cont(3) /\ Cont(4) -> 4
                  [] bytes[1] \in 241..243 /\ Cont(2) /\ Cont(3) /\ Cont(4) -> 4
                  [] bytes[1] = 244 /\ Second(128, 143) /\ Cont(3) /\ Cont(4) -> 4
                  [] OTHER -> 0
         IN  width > 0 /\ Utf8Valid(SubSeq(bytes, width + 1, n))

\* the primitive deserializers a bit sequence's adapter hands to the seed:
\* self.head.into_deserializer() and self.bits.into_deserializer() call
\* visit_u8 and visit_u64 whatever is asked of them, and
\* bytes.into_deserializer() is serde's SeqDeserializer, whose
\* deserialize_any is visitor.visit_seq(&mut self) followed by self.end():
\* when the visitor returned Ok and left elements unread, the answer is an
\* invalid length, of all the elements, expected as many as were read.
\* Element_visit(e) is the call made on the seed's visitor.
Element_visit(e) ==
    CASE e.deser = "u8" -> Visit("scalar", "visit_u8", e.v)
      [] e.deser = "u64" -> Visit("scalar", "visit_u64", e.v)
      [] e.deser = "Vec<u8>" -> Visit("SeqDeserializer_u8", "visit_seq", e.v)

\* what deserialize_any of the element returns, got being what the seed's
\* visitor returned on Element_visit(e) and count the number of elements
\* its visit_seq read
Element_deserialize_any(e, got, count) ==
    IF e.deser = "Vec<u8>" /\ got.ok /\ count < Len(e.v)
    THEN Failed(Error_invalid_length(Len(e.v),
            IF count = 1 THEN "1 element in sequence"
            ELSE ToString(count) \o " elements in sequence"))
    ELSE got

RECURSIVE BitVecPieces_elements(_)
\* the elements next_element_seed returns until it returns None
BitVecPieces_elements(p) ==
    LET n == BitVecPieces_next_element_seed(p)
    IN  IF n.elem.some THEN <<n.elem.v>> \o BitVecPieces_elements(n.next) ELSE <<>>

\* the visitor of u8 (impl_deserialize_num!): every integer callback is
\* converted when the value fits and is an invalid value when it does not
U8_visit(r) ==
    CASE IsErr(r) -> Failed(r)
      [] r.call \in IntegerCalls /\ r.payload \in 0..255 -> Ok(r.payload)
      [] r.call \in IntegerCalls -> Failed(Error_invalid_value(Unexpected_of(r), "u8"))
      [] OTHER -> Failed(Error_invalid_type(Unexpected_of(r), "u8"))

\* the visitor of Vec<u8> (VecVisitor): visit_seq alone is accepted, and
\* every element is read as a u8 until the accessor has none left.  The
\* elements of the SeqDeserializer of a composite are Values, the elements
\* of the SeqDeserializer over the bytes of a bit sequence are u8
\* deserializers, the elements of a bit sequence's adapter are its head,
\* its bits and its bytes from the current field on.
VecU8_visit(r) ==
    CASE IsErr(r) -> Failed(r)
      [] r.call = "visit_seq" /\ r.access = "SeqDeserializer" ->
            Collected([i \in 1..Len(r.payload) |->
                          U8_visit(Value_deserialize(r.payload[i], Hint("u8")))])
      [] r.call = "visit_seq" /\ r.access = "SeqDeserializer_u8" -> Ok(r.payload)
      [] r.call = "visit_seq" /\ r.access = "BitVecPieces" ->
            LET elems == BitVecPieces_elements(r.payload)
            IN  Collected([i \in 1..Len(elems) |->
                             Element_deserialize_any(elems[i],
                                 U8_visit(Element_visit(elems[i])), 0)])
      [] OTHER -> Failed(Error_invalid_type(Unexpected_of(r), "a sequence"))

\* the visitor of Vec<Vec<u8>> (serde's VecVisitor): visit_seq alone is
\* accepted, and each element is read as a Vec<u8> (Vec::<u8>::deserialize
\* calls deserialize_seq on it) until one fails or none is left.  On a
\* Value deserialize_seq is the core's; the u8 deserializers of a
\* SeqDeserializer over bytes and the elements of a bit sequence's adapter
\* forward it to their deserialize_any.
VecVecU8_visit(r) ==
    CASE IsErr(r) -> Failed(r)
      [] r.call = "visit_seq" ->
            LET elems == IF r.access = "BitVecPieces"
                         THEN BitVecPieces_elements(r.payload)
                         ELSE r.payload
                Offered(e) ==
                    CASE r.access = "SeqDeserializer" -> Value_deserialize(e, Hint("seq"))
                      [] r.access = "SeqDeserializer_u8" -> Visit("scalar", "visit_u8", e)
                      [] r.access = "BitVecPieces" -> Element_visit(e)
                Ended(e, got) ==
                    IF r.access = "BitVecPieces"
                    THEN Element_deserialize_any(e, got, Len(e.v))
                    ELSE got
            IN  Collected([i \in 1..Len(elems) |->
                             Ended(elems[i], VecU8_visit(Offered(elems[i])))])
      [] OTHER -> Failed(Error_invalid_type(Unexpected_of(r), "a sequence"))

\* the visitor of u8, of bool, of String (StringVisitor: visit_str,
\* visit_string, visit_bytes and visit_byte_buf; a String read from bytes is
\* held as those bytes, its UTF-8 encoding), of Vec<u8> or of Vec<Vec<u8>>,
\* given a callback
Field_visit(ty, r) ==
    CASE IsErr(r) -> Failed(r)
      [] ty = "u8" -> U8_visit(r)
      [] ty = "Vec<u8>" -> VecU8_visit(r)
      [] ty = "Vec<Vec<u8>>" -> VecVecU8_visit(r)
      [] ty = "bool" /\ r.call = "visit_bool" -> Ok(r.payload)
      [] ty = "bool" -> Failed(Error_invalid_type(Unexpected_of(r), "a boolean"))
      [] ty = "string" /\ r.call \in {"visit_str", "visit_string", "visit_char"} ->
            Ok(r.payload)
      [] ty = "string" /\ r.call \in {"visit_bytes", "visit_byte_buf"} ->
            IF Utf8Valid(r.payload) THEN Ok(r.payload)
            ELSE Failed(Error_invalid_value(Unexpected_of(r), "a string"))
      [] ty = "string" -> Failed(Error_invalid_type(Unexpected_of(r), "a string"))

\* u8::deserialize / bool::deserialize / String::deserialize /
\* Vec::<u8>::deserialize on a Value: deserialize_u8, deserialize_bool,
\* deserialize_string, and deserialize_seq for Vec<u8> and Vec<Vec<u8>>
Field_deserialize(ty, v) ==
    Field_visit(ty, Value_deserialize(v,
        IF ty \in {"Vec<u8>", "Vec<Vec<u8>>"} THEN Hint("seq") ELSE Hint(ty)))

RECURSIVE IgnoredAny_deserialize(_)

\* the visitor of IgnoredAny: every callback is accepted, and what it
\* carries is consumed as IgnoredAny in turn (the elements of a bit
\* sequence's adapter, primitive deserializers, are accepted as they are)
IgnoredAny_visit(r) ==
    CASE IsErr(r) -> Failed(r)
      [] r.call = "visit_map" ->
            FirstFailure([i \in 1..Len(r.payload) |->
                            IgnoredAny_deserialize([kind |-> "Value", val |-> r.payload[i][2]])],
                         "IgnoredAny")
      [] r.call = "visit_seq" /\ r.access = "SeqDeserializer" ->
            FirstFailure([i \in 1..Len(r.payload) |->
                            IgnoredAny_deserialize([kind |-> "Value", val |-> r.payload[i]])],
                         "IgnoredAny")
      [] r.call = "visit_enum" ->
            IgnoredAny_deserialize([kind |-> "Composite", val |-> r.payload.values])
      [] OTHER -> Ok("IgnoredAny")

\* IgnoredAny::deserialize: deserialize_ignored_any
IgnoredAny_deserialize(d) == IgnoredAny_visit(Deserialize_on(d, Hint("ignored_any")))

\* __Field: the position of the declared field a key names, 0 for __ignore
FieldIndex(fields, key) ==
    IF \E j \in 1..Len(fields) : fields[j].name = key
    THEN CHOOSE j \in 1..Len(fields) : fields[j].name = key
    ELSE 0

FieldNamesOf(fields) == [j \in 1..Len(fields) |-> fields[j].name]

\* the derived struct visitor's visit_map from entry i on: a declared key
\* fills its slot (a second time is an error), any other key is skipped
\* as IgnoredAny, and at the end every slot must be filled
RECURSIVE StructVisitor_visit_map_from(_, _, _, _)

\* entry i was under no declared name and was consumed with the result skipped
StructVisitor_after_skip(fields, entries, i, slots, skipped) ==
    IF skipped.ok
    THEN StructVisitor_visit_map_from(fields, entries, i + 1, slots)
    ELSE skipped

\* entry i was under the name of field j and was decoded with the result got
StructVisitor_after_field(fields, entries, i, slots, j, got) ==
    IF got.ok
    THEN StructVisitor_visit_map_from(fields, entries, i + 1,
                                      [slots EXCEPT ![j] = Some(got.val)])
    ELSE got

StructVisitor_at_key(fields, entries, i, slots, j) ==
    IF j = 0
    THEN StructVisitor_after_skip(fields, entries, i, slots,
             IgnoredAny_deserialize([kind |-> "Value", val |-> entries[i][2]]))
    ELSE IF slots[j].some
    THEN Failed(Error_custom("duplicate field " \o Backquoted(fields[j].name)))
    ELSE StructVisitor_after_field(fields, entries, i, slots, j,
             Field_deserialize(fields[j].ty, entries[i][2]))

StructVisitor_visit_map_from(fields, entries, i, slots) ==
    IF i > Len(entries)
    THEN IF \A j \in 1..Len(fields) : slots[j].some
         THEN Ok([j \in 1..Len(fields) |-> slots[j].v])
         ELSE LET j == CHOOSE j \in 1..Len(fields) :
                          ~slots[j].some /\ \A k \in 1..(j - 1) : slots[k].some
              IN  Failed(Error_custom("missing field " \o Backquoted(fields[j].name)))
    ELSE StructVisitor_at_key(fields, entries, i, slots, FieldIndex(fields, entries[i][1]))

StructVisitor_visit_map(fields, entries) ==
    StructVisitor_visit_map_from(fields, entries, 1, [j \in 1..Len(fields) |-> NoneOpt])

\* the derived visit_seq of a struct or a tuple: one element per declared
\* field, in declared order, got[j] being what reading element j as field j
\* gave; the elements after the last field are not asked for, and a field
\* with no element left is an invalid length, expected "struct Foo with 2
\* elements" or "struct Foo with 1 element"; the answer is the fields
\* decoded, or the first failure among them
StructVisitor_visit_seq(exp, fields, got) ==
    LET elements == IF Len(fields) = 1 THEN exp \o " with 1 element"
                    ELSE exp \o " with " \o ToString(Len(fields)) \o " elements"
    IN  Collected(
            [j \in 1..Len(fields) |->
                IF j > Len(got)
                THEN Failed(Error_invalid_length(j - 1, elements))
                ELSE got[j]])

\* what a derived visitor makes of the callback it receives; style is
\* "struct", "struct variant" or "tuple variant", name the type or
\* Enum::Case.  visit_seq is implemented for all three, visit_map for the
\* first two.  The elements of a visit_seq are Values (a composite), the
\* primitive deserializers of a bit sequence's adapter, or u8 deserializers
\* (the SeqDeserializer over bytes).
StructVisitor(style, name, fields, r) ==
    LET exp == style \o " " \o name
    IN  CASE IsErr(r) -> Failed(r)
          [] r.call = "visit_map" /\ style /= "tuple variant" ->
                StructVisitor_visit_map(fields, r.payload)
          [] r.call = "visit_seq" /\ r.access = "SeqDeserializer" ->
                StructVisitor_visit_seq(exp, fields,
                    [j \in 1..Len(r.payload) |->
                        IF j <= Len(fields)
                        THEN Field_deserialize(fields[j].ty, r.payload[j])
                        ELSE Ok(<<>>)])
          [] r.call = "visit_seq" /\ r.access = "BitVecPieces" ->
                LET elems == BitVecPieces_elements(r.payload)
                IN  StructVisitor_visit_seq(exp, fields,
                        [j \in 1..Len(elems) |->
                            IF j <= Len(fields)
                            THEN Element_deserialize_any(elems[j],
                                     Field_visit(fields[j].ty,
                                                 Element_visit(elems[j])),
                                     Len(elems[j].v))
                            ELSE Ok(<<>>)])
          [] r.call = "visit_seq" /\ r.access = "SeqDeserializer_u8" ->
                StructVisitor_visit_seq(exp, fields,
                    [j \in 1..Len(r.payload) |->
                        IF j <= Len(fields)
                        THEN Field_visit(fields[j].ty,
                                         Visit("scalar", "visit_u8", r.payload[j]))
                        ELSE Ok(<<>>)])
          [] OTHER -> Failed(Error_invalid_type(Unexpected_of(r), exp))

\* the visitor of (): visit_unit alone is accepted
Field_unit(r) ==
    CASE IsErr(r) -> Failed(r)
      [] r.call = "visit_unit" -> Ok(<<>>)
      [] OTHER -> Failed(Error_invalid_type(Unexpected_of(r), "unit"))

\* the value of a decoded struct or enum case
Built(name, got) ==
    IF got.ok THEN Ok([name |-> name, vals |-> got.val]) ELSE got

\* Foo::deserialize(d): deserialize_struct("Foo", FIELDS, visitor)
Struct_deserialize(t, d) ==
    Built(t.name,
          StructVisitor("struct", t.name, t.fields,
                        Deserialize_on(d, HintStruct(t.name, FieldNamesOf(t.fields)))))

-----------------------------------------------------------------------------
(* The derived visitor of an enum target.                                  *)

\* the position of the declared case a variant name selects, 0 for none
CaseIndex(cases, name) ==
    IF \E j \in 1..Len(cases) : cases[j].name = name
    THEN CHOOSE j \in 1..Len(cases) : cases[j].name = name
    ELSE 0

\* impl VariantAccess for Composite, newtype_variant_seed: seed.deserialize(self),
\* the seed being PhantomData of the payload type ty
Composite_newtype_variant_seed(c, ty) ==
    Field_visit(ty, Composite_deserialize(c,
        IF ty \in {"Vec<u8>", "Vec<Vec<u8>>"} THEN Hint("seq") ELSE Hint(ty)))

\* the payload of the selected case c of the enum called enum, asked for
\* in the style the case is declared in
EnumVisitor_payload(enum, c, values) ==
    CASE c.style = "unit" -> Field_unit(Composite_unit_variant(values))
      [] c.style = "tuple" ->
            StructVisitor("tuple variant", enum \o "::" \o c.name, c.fields,
                          Composite_tuple_variant(values, Len(c.fields)))
      [] c.style = "struct" ->
            StructVisitor("struct variant", enum \o "::" \o c.name, c.fields,
                          Composite_struct_variant(values, FieldNamesOf(c.fields)))
      [] c.style = "newtype" ->
            \* the one payload, or its failure
            Collected(<<Composite_newtype_variant_seed(values, c.fields[1].ty)>>)

\* de::Error::unknown_variant's list of the declared names (OneOf): `a`,
\* `a` or `b`, one of `a`, `b`, `c`
OneOf(names) ==
    LET RECURSIVE Listed(_)
        Listed(i) == IF i = Len(names) THEN Backquoted(names[i])
                     ELSE Backquoted(names[i]) \o ", " \o Listed(i + 1)
    IN  CASE Len(names) = 1 -> Backquoted(names[1])
          [] Len(names) = 2 -> Backquoted(names[1]) \o " or " \o Backquoted(names[2])
          [] Len(names) > 2 -> "one of " \o Listed(1)

\* visit_enum: data.variant() selects the case by name
EnumVisitor_select(t, chosen, j) ==
    IF j = 0
    THEN IF t.cases = <<>>
         THEN Failed(Error_custom("unknown variant " \o Backquoted(chosen[1])
                                  \o ", there are no variants"))
         ELSE Failed(Error_custom("unknown variant " \o Backquoted(chosen[1])
                                  \o ", expected " \o OneOf(FieldNamesOf(t.cases))))
    ELSE Built(t.cases[j].name, EnumVisitor_payload(t.name, t.cases[j], chosen[2]))

EnumVisitor_visit_enum(t, chosen) ==
    EnumVisitor_select(t, chosen, CaseIndex(t.cases, chosen[1]))

\* what the derived enum visitor makes of the callback it receives
EnumVisitor(t, r) ==
    CASE IsErr(r) -> Failed(r)
      [] r.call = "visit_enum" -> EnumVisitor_visit_enum(t, Variant_variant_seed(r.payload))
      [] OTHER -> Failed(Error_invalid_type(Unexpected_of(r), "enum " \o t.name))

\* MyEnum::deserialize(d): deserialize_enum("MyEnum", VARIANTS, visitor)
Enum_deserialize(t, d) ==
    EnumVisitor(t, Deserialize_on(d, HintEnum(t.name, FieldNamesOf(t.cases))))

\* T::deserialize(d)
Target_deserialize(t, d) ==
    IF t.ty = "struct" THEN Struct_deserialize(t, d) ELSE Enum_deserialize(t, d)


-----------------------------------------------------------------------------
(* The bit-sequence target of the test de_bitvec: bitvec's Deserialize,     *)
(* which is no code of this repository and is taken from section 4.5 of    *)
(* the specification (three fields, consumed strictly in the order head,   *)
(* bits, data).                                                            *)

\* the visitor's visit_seq: three next_element calls, a u8 head, a u64 bit
\* count and the bytes, put together again as a bit sequence; elems is what
\* the calls returned, and an element that is missing is an invalid length
BitVec_visit_seq(elems) ==
    LET exp == "a BitSet data series"
        U64_visit(r) ==
            IF r.call \in IntegerCalls /\ r.payload >= 0 THEN Ok(r.payload)
            ELSE IF r.call \in IntegerCalls
            THEN Failed(Error_invalid_value(Unexpected_of(r), "u64"))
            ELSE Failed(Error_invalid_type(Unexpected_of(r), "u64"))
        Read(i) ==
            IF i > Len(elems) \/ ~elems[i].some
            THEN Failed(Error_invalid_length(i - 1, exp))
            ELSE LET e == elems[i].v
                 IN  CASE i = 1 -> Element_deserialize_any(e,
                                       U8_visit(Element_visit(e)), 0)
                       [] i = 2 -> Element_deserialize_any(e,
                                       U64_visit(Element_visit(e)), 0)
                       [] i = 3 -> Element_deserialize_any(e,
                                       VecU8_visit(Element_visit(e)), Len(e.v))
        got == [i \in 1..3 |-> Read(i)]
    IN  FirstFailure(got, BitSequence(got[1].val, got[2].val, got[3].val))

-----------------------------------------------------------------------------
(* map_context (mod.rs 105-110, 128-138, 181-199, 241-246).                *)

\* F: Clone + FnMut(T) -> U.  A closure is its code (kind) and the state it
\* captured; calling it gives the new context and the closure afterwards.
Apply(f, c) ==
    CASE f.kind = "identity" -> [out |-> c, next |-> f]
      [] f.kind = "const"    -> [out |-> f.state, next |-> f]
      [] f.kind = "succ"     -> [out |-> c + 1, next |-> f]
      [] f.kind = "counter"  -> [out |-> f.state, next |-> [f EXCEPT !.state = @ + 1]]

RECURSIVE Value_map_context(_, _)
RECURSIVE ValueDef_map_context(_, _)
RECURSIVE Composite_map_context(_, _)
RECURSIVE Variant_map_context(_, _)

\* a variant of Composite_map_context that collects the mapped children in
\* reverse
Composite_map_context_reversed(c, f) ==
    IF c.comp = "Named"
    THEN Named([i \in 1..Len(c.values) |->
                  <<c.values[Len(c.values) + 1 - i][1],
                    Value_map_context(c.values[Len(c.values) + 1 - i][2], f)>>])
    ELSE Unnamed([i \in 1..Len(c.values) |->
                  Value_map_context(c.values[Len(c.values) + 1 - i], f)])

\* every child is mapped with its own f.clone()
Composite_map_context(c, f) ==
    IF c.comp = "Named"
    THEN Named([i \in 1..Len(c.values) |->
                  <<c.values[i][1], Value_map_context(c.values[i][2], f)>>])
    ELSE Unnamed([i \in 1..Len(c.values) |-> Value_map_context(c.values[i], f)])

Variant_map_context(v, f) ==
    Variant(v.name, Composite_map_context(v.values, f))

ValueDef_map_context(d, f) ==
    CASE d.def = "Composite" -> ValueDef("Composite", Composite_map_context(d.inner, f))
      [] d.def = "Variant" -> ValueDef("Variant", Variant_map_context(d.inner, f))
      [] d.def = "BitSequence" -> ValueDef("BitSequence", d.inner)
      [] d.def = "Primitive" -> ValueDef("Primitive", d.inner)

\* a variant of Value_map_context that hands the shape the transform as it
\* was before it was called on the node's own context
Value_map_context_before_call(v, f) ==
    [context |-> Apply(f, v.context).out, value |-> ValueDef_map_context(v.value, f)]

\* Value { context: f(self.context), value: self.value.map_context(f) }: f
\* is called on the node's own context and then moved into the shape
Value_map_context(v, f) ==
    LET called == Apply(f, v.context)
    IN  [context |-> called.out, value |-> ValueDef_map_context(v.value, called.next)]

\* self.map_context(|_| ())
Value_without_context(v) ==
    Value_map_context(v, [kind |-> "const", state |-> 0])

-----------------------------------------------------------------------------
(* The values enumerated.                                                  *)

\* one payload per Primitive tag, and a second U8
WideValue(first) == [i \in 1..WideBytes |-> (first + i) % 256]

AllPrims ==
    {Prim("Bool", TRUE), Prim("Char", "c"), Prim("Str", "hello"),
     Prim("U8", 1), Prim("U8", 2), Prim("U16", 1), Prim("U32", 70000), Prim("U64", 5),
     Prim("U128", 6), Prim("U256", WideValue(0)),
     Prim("I8", -1), Prim("I16", -300), Prim("I32", 7), Prim("I64", -8),
     Prim("I128", 9), Prim("I256", WideValue(100))}

\* the elements composites are built of
ElemPrims == {Prim("U8", 1), Prim("U8", 2), Prim("U16", 1)}

ElemValues == {Value_primitive(p) : p \in ElemPrims}

\* the names given to the entries of a Named composite, by position
FieldNames == <<"a", "b", "c">>
NameAt(scheme, i) ==
    IF scheme = "forward"
    THEN FieldNames[((i - 1) % Len(FieldNames)) + 1]
    ELSE FieldNames[Len(FieldNames) - ((i - 1) % Len(FieldNames))]

WithNames(scheme, vals) == [i \in 1..Len(vals) |-> <<NameAt(scheme, i), vals[i]>>]

Composites ==
    LET lists == SeqsUpTo(ElemValues, MaxLen)
    IN  {Unnamed(vals) : vals \in lists}
        \cup {Named(WithNames("forward", vals)) : vals \in lists}
        \cup {Named(WithNames("backward", vals)) : vals \in lists}

VariantNames == {"Foo", "Bar"}

Variants == {Variant(n, c) : n \in VariantNames, c \in Composites}

\* bit sequences: ceil((head + bits) / 8) backing bytes (section 4.5 of the
\* specification; the bit vector itself is no code of this repository), an
\* empty one starting at bit 0
SampleBytes == {86, 143}
BitLens == {0, 1, 8, MaxBits}
BitHeads == {0, 3}
BytesFor(head, bits) == (head + bits + 7) \div 8

BitSequences ==
    UNION {UNION {{BitSequence(h, n, data) : data \in [1..BytesFor(h, n) -> SampleBytes]} :
                    n \in (IF h = 0 THEN BitLens ELSE BitLens \ {0})} :
             h \in BitHeads}

ValueDefs ==
    {ValueDef("Composite", c) : c \in Composites}
    \cup {ValueDef("Variant", v) : v \in Variants}
    \cup {ValueDef("BitSequence", b) : b \in BitSequences}
    \cup {ValueDef("Primitive", p) : p \in AllPrims}

Values == {Value(d, 0) : d \in ValueDefs}

On(kind, val) == [kind |-> kind, val |-> val]

Deserializers ==
    {On("Value", v) : v \in Values}
    \cup {On("ValueDef", d) : d \in ValueDefs}
    \cup {On("Composite", c) : c \in Composites}
    \cup {On("Variant", v) : v \in Variants}
    \cup {On("Primitive", p) : p \in AllPrims}

StructNames == {"Foo"}
TupleLens == 0..(MaxLen + 1)

-----------------------------------------------------------------------------
(* Specification Spec: one hint issued on one deserializer.  A deserializer *)
(* is consumed by the call (self by value), so a behaviour decodes once.   *)

Idle ==
    /\ target = None /\ decoded = None
    /\ pieces = None /\ yielded = <<>>
    /\ tree = None /\ closure = None /\ mapped = None
    /\ serializer = None /\ written = <<>> /\ gathered = None

Init ==
    /\ de \in Deserializers
    /\ hint = None
    /\ result = None
    /\ Idle

\* the Deserializer method `method` called with the arguments it takes
Issue(method, name, len, fields) ==
    LET h == [method |-> method, name |-> name, len |-> len, fields |-> fields]
    IN  \* a deserializer is at hand, called directly and not by a target
        /\ de /= None /\ target = None
        /\ result = None
        /\ hint' = h
        /\ result' = Deserialize_on(de, h)
        \* visit_seq(self): the visitor now holds the BitVecPieces adapter
        /\ pieces' = IF result'.access = "BitVecPieces" THEN result'.payload ELSE None
        /\ UNCHANGED <<de, target, decoded, yielded, tree, closure, mapped, serializer, written, gathered>>

\* the methods every impl forwards to deserialize_any
ForwardedHints ==
    <<"bool", "i8", "i16", "i32", "i64", "i128", "u8", "u16", "u32", "u64", "u128",
      "f32", "f64", "char", "str", "string", "option", "identifier", "ignored_any">>

DeserializeAny == Issue("any", "", 0, <<>>)
DeserializeForwarded == \E i \in 1..Len(ForwardedHints) : Issue(ForwardedHints[i], "", 0, <<>>)
DeserializeSeq == Issue("seq", "", 0, <<>>)
DeserializeMap == Issue("map", "", 0, <<>>)
DeserializeBytes == Issue("bytes", "", 0, <<>>)
DeserializeByteBuf == Issue("byte_buf", "", 0, <<>>)
DeserializeUnit == Issue("unit", "", 0, <<>>)
DeserializeUnitStruct == \E n \in StructNames : Issue("unit_struct", n, 0, <<>>)
DeserializeNewtypeStruct == \E n \in StructNames : Issue("newtype_struct", n, 0, <<>>)
DeserializeTuple == \E n \in TupleLens : Issue("tuple", "", n, <<>>)
DeserializeTupleStruct == \E s \in StructNames, n \in TupleLens : Issue("tuple_struct", s, n, <<>>)
DeserializeStruct == \E s \in StructNames : Issue("struct", s, 0, <<"a", "b">>)
DeserializeEnum == \E s \in StructNames : Issue("enum", s, 0, <<"Foo">>)

\* the visitor asks the BitVecPieces adapter for the next element
NextElementSeed ==
    /\ pieces /= None
    /\ Len(yielded) < 3 + MaxExtraRequests
    /\ LET r == BitVecPieces_next_element_seed(pieces)
       IN  /\ yielded' = Append(yielded, r.elem)
           /\ pieces' = r.next
    /\ UNCHANGED <<de, hint, result, target, decoded, tree, closure, mapped, serializer, written, gathered>>

Next ==
    \/ NextElementSeed
    \/ DeserializeAny
    \/ DeserializeForwarded
    \/ DeserializeSeq
    \/ DeserializeMap
    \/ DeserializeBytes
    \/ DeserializeByteBuf
    \/ DeserializeUnit
    \/ DeserializeUnitStruct
    \/ DeserializeNewtypeStruct
    \/ DeserializeTuple
    \/ DeserializeTupleStruct
    \/ DeserializeStruct
    \/ DeserializeEnum

Spec == Init /\ [][Next]_vars

-----------------------------------------------------------------------------
(* Specification SpecMap: a tree is built with the constructors and then   *)
(* given to map_context or without_context.                                *)

\* the nesting depth of a tree
RECURSIVE Depth(_)
Depth(v) ==
    LET d == v.value
        c == IF d.def = "Composite" THEN d.inner
             ELSE IF d.def = "Variant" THEN d.inner.values
             ELSE Unnamed(<<>>)
        kids == IF c.comp = "Named" THEN DropNames(c.values) ELSE c.values
        below == {Depth(kids[i]) : i \in 1..Len(kids)}
    IN  IF d.def \in {"Composite", "Variant"}
        THEN 1 + (IF below = {} THEN 0 ELSE CHOOSE m \in below : \A k \in below : k <= m)
        ELSE 0

Contexts == 0..1

Leaves ==
    {with_context(ValueDef("Primitive", Prim("U8", 1)), 0),
     with_context(ValueDef("BitSequence", BitSequence(0, 8, <<86>>)), 1),
     with_context(ValueDef("Composite", Unnamed(<<>>)), 1)}

\* the transforms handed to map_context
Closures ==
    {[kind |-> "identity", state |-> 0], [kind |-> "const", state |-> 7],
     [kind |-> "succ", state |-> 0], [kind |-> "counter", state |-> 10]}

\* the children a new composite is given: the tree alone, the tree after a
\* leaf, or the tree twice
Children(layout) ==
    CASE layout = "alone" -> <<tree>>
      [] layout = "after" -> <<with_context(ValueDef("Primitive", Prim("Bool", TRUE)), 0), tree>>
      [] layout = "twice" -> <<tree, tree>>

Layouts == <<"alone", "after", "twice">>
CompositeKinds == <<"Named", "Unnamed">>

InitMap ==
    /\ tree \in Leaves
    /\ closure \in Closures
    /\ mapped = None
    /\ de = None /\ hint = None /\ result = None
    /\ target = None /\ decoded = None
    /\ pieces = None /\ yielded = <<>>
    /\ serializer = None /\ written = <<>> /\ gathered = None

\* Value::with_context over a new Composite or Variant holding the tree
Grow(comp, name, layout, ctx) ==
    LET composite == IF comp = "Named"
                     THEN Named(WithNames("forward", Children(layout)))
                     ELSE Unnamed(Children(layout))
    IN  /\ mapped = None
        /\ Depth(tree) < MaxDepth
        /\ tree' = with_context(
                     IF name = ""
                     THEN ValueDef("Composite", composite)
                     ELSE ValueDef("Variant", Variant(name, composite)),
                     ctx)
        /\ UNCHANGED <<de, hint, result, target, decoded, pieces, yielded, closure, mapped, serializer, written, gathered>>

WrapUnnamed ==
    \E i \in 1..Len(Layouts), ctx \in Contexts : Grow("Unnamed", "", Layouts[i], ctx)

WrapNamed ==
    \E i \in 1..Len(Layouts), ctx \in Contexts : Grow("Named", "", Layouts[i], ctx)

WrapVariant ==
    \E i \in 1..Len(Layouts), ctx \in Contexts, j \in 1..Len(CompositeKinds) :
        Grow(CompositeKinds[j], "Foo", Layouts[i], ctx)

MapContext ==
    /\ mapped = None
    /\ mapped' = Value_map_context(tree, closure)
    /\ UNCHANGED <<de, hint, result, target, decoded, pieces, yielded, tree, closure, serializer, written, gathered>>

WithoutContext ==
    /\ mapped = None
    /\ closure' = [kind |-> "const", state |-> 0]
    /\ mapped' = Value_without_context(tree)
    /\ UNCHANGED <<de, hint, result, target, decoded, pieces, yielded, tree, serializer, written, gathered>>

NextMap ==
    \/ WrapUnnamed
    \/ WrapNamed
    \/ WrapVariant
    \/ MapContext
    \/ WithoutContext

SpecMap == InitMap /\ [][NextMap]_vars

-----------------------------------------------------------------------------
(* Specification SpecTarget: a composite or a variant, wrapped or bare, is *)
(* decoded into a struct or an enum target.                                *)

StructTarget(name, fields) ==
    [ty |-> "struct", name |-> name, fields |-> fields, cases |-> <<>>]

\* an enum with the one case Foo
EnumTarget(name, style, fields) ==
    [ty |-> "enum", name |-> name, fields |-> <<>>,
     cases |-> <<[name |-> "Foo", style |-> style, fields |-> fields]>>]

FieldsA == <<[name |-> "a", ty |-> "u8"]>>
FieldsAB == <<[name |-> "a", ty |-> "u8"], [name |-> "b", ty |-> "bool"]>>

\* the payload of a case wrapping a Vec<u8>
FieldsVec == <<[name |-> "a", ty |-> "Vec<u8>"]>>

\* fields that hold sequences, and sequences of sequences
FieldsVecB == <<[name |-> "a", ty |-> "Vec<u8>"], [name |-> "b", ty |-> "u8"]>>
FieldsVecVec == <<[name |-> "a", ty |-> "Vec<Vec<u8>>"]>>

Targets ==
    {StructTarget("Foo", FieldsAB), StructTarget("Foo", FieldsA),
     EnumTarget("MyEnum", "unit", <<>>), EnumTarget("MyEnum2", "tuple", <<>>),
     EnumTarget("MyEnum3", "struct", <<>>),
     EnumTarget("MyEnum", "struct", FieldsAB), EnumTarget("MyEnum", "tuple", FieldsAB),
     EnumTarget("MyEnum", "newtype", FieldsA), EnumTarget("MyEnum", "newtype", FieldsVec),
     StructTarget("Foo", FieldsVecB), StructTarget("Foo", FieldsVecVec),
     EnumTarget("MyEnum", "struct", FieldsVecB), EnumTarget("MyEnum", "tuple", FieldsVecB),
     EnumTarget("MyEnum", "newtype", FieldsVecVec)}

\* the entries and elements of the composites decoded
TargetEntries ==
    {<<"a", Value_u8(1)>>, <<"a", Value_bool(TRUE)>>,
     <<"b", Value_bool(TRUE)>>, <<"b", Value_u8(1)>>,
     <<"c", Value_u8(2)>>, <<"c", Value_variant("Bar", Unnamed(<<Value_u8(2)>>))>>}

TargetElems == {Value_u8(1), Value_bool(TRUE), Value_u8(2)}

\* values that hold values: bytes, bytes with a bool among them, a bit
\* sequence, and sequences of these
NestedValues ==
    LET bytes == Value_unnamed_composite(<<Value_u8(1), Value_u8(2)>>)
        mixed == Value_unnamed_composite(<<Value_u8(1), Value_bool(TRUE)>>)
        bits == Value_bit_sequence(BitSequence(0, 8, <<86>>))
    IN  {Value_u8(1), bytes, mixed, bits,
         Value_unnamed_composite(<<bytes>>),
         Value_unnamed_composite(<<bytes, mixed>>),
         Value_unnamed_composite(<<bytes, bits>>)}

NestedEntries ==
    {<<"a", v>> : v \in NestedValues} \cup {<<"b", Value_u8(1)>>, <<"b", Value_bool(TRUE)>>}

TargetComposites ==
    {Named(entries) : entries \in SeqsUpTo(TargetEntries, MaxLen)}
    \cup {Unnamed(elems) : elems \in SeqsUpTo(TargetElems, MaxLen)}
    \cup {Named(entries) : entries \in SeqsUpTo(NestedEntries, MaxNested)}
    \cup {Unnamed(elems) : elems \in SeqsUpTo(NestedValues, MaxNested)}

TargetDeserializers ==
    {On("Value", Value(ValueDef("Composite", c), 0)) : c \in TargetComposites}
    \cup {On("ValueDef", ValueDef("Composite", c)) : c \in TargetComposites}
    \cup {On("Composite", c) : c \in TargetComposites}
    \cup {On("Value", Value_variant(n, c)) : n \in VariantNames, c \in TargetComposites}
    \cup {On("ValueDef", ValueDef("Variant", Variant(n, c))) : n \in VariantNames, c \in TargetComposites}
    \cup {On("Variant", Variant(n, c)) : n \in VariantNames, c \in TargetComposites}
    \cup {On("Value", Value_bit_sequence(BitSequence(0, 8, <<86>>))),
          On("ValueDef", ValueDef("BitSequence", BitSequence(1, 9, <<86, 1>>))),
          On("Value", Value_str("a\"b"))}

InitTarget ==
    /\ de \in TargetDeserializers
    /\ target \in Targets
    /\ decoded = None
    /\ hint = None /\ result = None
    /\ pieces = None /\ yielded = <<>>
    /\ tree = None /\ closure = None /\ mapped = None
    /\ serializer = None /\ written = <<>> /\ gathered = None

\* T::deserialize(de) for a struct T; there is a target, not yet decoded
DeserializeIntoStruct ==
    /\ target /= None /\ decoded = None
    /\ target.ty = "struct"
    /\ decoded' = Struct_deserialize(target, de)
    /\ UNCHANGED <<de, hint, result, target, pieces, yielded, tree, closure, mapped, serializer, written, gathered>>

\* T::deserialize(de) for an enum T
DeserializeIntoEnum ==
    /\ target /= None /\ decoded = None
    /\ target.ty = "enum"
    /\ decoded' = Enum_deserialize(target, de)
    /\ UNCHANGED <<de, hint, result, target, pieces, yielded, tree, closure, mapped, serializer, written, gathered>>

NextTarget ==
    \/ DeserializeIntoStruct
    \/ DeserializeIntoEnum

SpecTarget == InitTarget /\ [][NextTarget]_vars

-----------------------------------------------------------------------------
(* Specification SpecExtract: BitVecPieces::new (deserializer.rs 769-1000)  *)
(* driven by a Serialize impl that writes any fields in any order.  A write *)
(* is <<key, value>>: serialize_field(key, value), or value.serialize(se)   *)
(* outside every field when the key is "".  serialize_struct, which changes *)
(* nothing, has been called when a field is written.                        *)

MaxFields == 4

\* a value handed to the serializer: a u8, a u64, a bool, a u128, a
\* sequence of u8 or a sequence of u64
WriteValue(ty, v) == [ty |-> ty, v |-> v]

WriteValues ==
    {WriteValue("u8", b) : b \in {1, 2}}
    \cup {WriteValue("u64", n) : n \in {3, 9}}
    \cup {WriteValue("seq", s) : s \in {<<>>, <<1, 2>>}}
    \cup {WriteValue("seq_u64", <<3>>), WriteValue("bool", 1), WriteValue("u128", 7)}

FieldKeys == {"head", "bits", "data", "order"}

RECURSIVE ElementCallsU64(_)
\* SerializeSeq::serialize_element hands each u64 back to serialize_u64
ElementCallsU64(data) ==
    IF data = <<>> THEN <<>>
    ELSE <<Call("serialize_u64", "", Head(data))>> \o ElementCallsU64(Tail(data))

\* value.serialize(&mut **self): the calls the value makes on the serializer
ValueCalls(value) ==
    CASE value.ty = "u8" -> <<Call("serialize_u8", "", value.v)>>
      [] value.ty = "u64" -> <<Call("serialize_u64", "", value.v)>>
      [] value.ty = "bool" -> <<Call("serialize_bool", "", value.v)>>
      [] value.ty = "u128" -> <<Call("serialize_u128", "", value.v)>>
      [] value.ty = "seq" ->
            <<Call("serialize_seq", "", 0)>> \o ElementCalls(value.v)
            \o <<Call("SerializeSeq_end", "", 0)>>
      [] value.ty = "seq_u64" ->
            <<Call("serialize_seq", "", 0)>> \o ElementCallsU64(value.v)
            \o <<Call("SerializeSeq_end", "", 0)>>

\* SerializeStruct::serialize_field(key, value)
FieldCalls(key, value) == <<Call("serialize_field", key, 0)>> \o ValueCalls(value)

InitExtract ==
    /\ serializer = BitVecSerializer_new
    /\ written = <<>> /\ gathered = None
    /\ de = None /\ hint = None /\ result = None
    /\ target = None /\ decoded = None
    /\ pieces = None /\ yielded = <<>>
    /\ tree = None /\ closure = None /\ mapped = None

\* the Serialize impl writes a value without opening a struct
SerializeBare ==
    /\ serializer /= None
    /\ gathered = None /\ written = <<>>
    /\ \E value \in WriteValues :
          /\ serializer' = BitVecSerializer_run(serializer, ValueCalls(value))
          /\ written' = <<(<<"", value>>)>>
    /\ UNCHANGED <<de, hint, result, target, decoded, pieces, yielded, tree, closure,
                   mapped, gathered>>

\* the Serialize impl writes one more field of its struct; an error
\* returned by a write ends the serialization (the ? operator)
SerializeField ==
    /\ serializer /= None
    /\ gathered = None /\ ~IsErr(serializer.error)
    /\ Len(written) < MaxFields
    /\ \E key \in FieldKeys, value \in WriteValues :
          /\ serializer' = BitVecSerializer_run(serializer, FieldCalls(key, value))
          /\ written' = Append(written, <<key, value>>)
    /\ UNCHANGED <<de, hint, result, target, decoded, pieces, yielded, tree, closure,
                   mapped, gathered>>

\* SerializeStruct::end, and the match on the serializer that follows
\* bit_vec.serialize(&mut se)?
Gather ==
    /\ serializer /= None
    /\ gathered = None
    /\ gathered' = BitVecPieces_gather(
                      BitVecSerializer_call(serializer, Call("SerializeStruct_end", "", 0)))
    /\ UNCHANGED <<de, hint, result, target, decoded, pieces, yielded, tree, closure,
                   mapped, serializer, written>>

\* ValueDef::deserialize_any on the bit sequence that serialized itself so
\* (226): BitVecPieces::new(seq)?.deserialize_any(visitor)
Replay ==
    /\ gathered /= None /\ result = None
    /\ hint' = Hint("any")
    /\ result' = BitSequence_deserialize_any(gathered)
    /\ pieces' = IF result'.access = "BitVecPieces" THEN result'.payload ELSE None
    /\ UNCHANGED <<de, target, decoded, yielded, tree, closure, mapped, serializer,
                   written, gathered>>

NextExtract ==
    \/ SerializeBare
    \/ SerializeField
    \/ Gather
    \/ Replay

SpecExtract == InitExtract /\ [][NextExtract]_vars

-----------------------------------------------------------------------------
(* Specification SpecDecode: every decode above, a hint issued on a        *)
(* deserializer, a target decoded, or a bit sequence extracted and         *)
(* replayed; the properties of errors are stated over all of them.         *)

SpecDecode ==
    (Init \/ InitTarget \/ InitExtract) /\ [][Next \/ NextTarget \/ NextExtract]_vars

-----------------------------------------------------------------------------

(* What the properties below read off a state.                             *)

Issued == result /= None

\* the shape the deserializer holds, whatever it is wrapped in
ShapeOf(d) ==
    CASE d.kind = "Value" -> d.val.value
      [] d.kind = "ValueDef" -> d.val
      [] d.kind = "Composite" -> [def |-> "Composite", inner |-> d.val]
      [] d.kind = "Variant" -> [def |-> "Variant", inner |-> d.val]
      [] d.kind = "Primitive" -> [def |-> "Primitive", inner |-> d.val]

OnComposite == ShapeOf(de).def = "Composite"
OnVariant == ShapeOf(de).def = "Variant"
OnPrimitive == ShapeOf(de).def = "Primitive"
OnBitSequence == ShapeOf(de).def = "BitSequence"

\* the values a composite stores, in stored order, names left out
StoredValues(c) ==
    [i \in 1..Len(c.values) |->
        IF c.comp = "Named" THEN c.values[i][2] ELSE c.values[i]]

IsSeqOf(r, elems) ==
    r.access = "SeqDeserializer" /\ r.call = "visit_seq" /\ r.payload = elems

IsLengthMismatch(r, k, n) ==
    /\ IsErr(r)
    /\ r.payload.msg = "Cannot deserialize composite of length {} into tuple of length {}"
    /\ r.payload.with = <<k, n>>

\* C2: a tuple(n) or tuple_struct(_, n) hint on a composite of k elements
\* delivers the k values as a sequence in stored order, names ignored, if
\* and only if k = n; otherwise it fails with the length mismatch error
\* that reports k and n.
PositionalStrictness ==
    (Issued /\ OnComposite /\ hint.method \in {"tuple", "tuple_struct"}) =>
        LET c == ShapeOf(de).inner
            k == Len(c.values)
            n == hint.len
        IN  /\ (k = n) => IsSeqOf(result, StoredValues(c))
            /\ (k /= n) => IsLengthMismatch(result, k, n)
            /\ IsErr(result) <=> (k /= n)

\* a Named composite of two or more entries answered a tuple hint of its
\* own length with a sequence
PositionalStrictnessWitness ==
    /\ Issued /\ OnComposite /\ hint.method = "tuple"
    /\ ShapeOf(de).inner.comp = "Named"
    /\ Len(ShapeOf(de).inner.values) >= 2
    /\ result.call = "visit_seq"

IsU8Value(v) == v.value.def = "Primitive" /\ v.value.inner.prim = "U8"

\* C4: a bytes or byte_buf hint on a composite, Named or Unnamed, delivers
\* a byte buffer if and only if every element is a Primitive::U8, and the
\* buffer then holds the elements' bytes in stored order; otherwise the
\* decode fails with the not-all-bytes error.
AllBytesRequirement ==
    (Issued /\ OnComposite /\ hint.method \in {"bytes", "byte_buf"}) =>
        LET vals == StoredValues(ShapeOf(de).inner)
            allU8 == \A i \in 1..Len(vals) : IsU8Value(vals[i])
        IN  /\ allU8 =>
                /\ result.call = "visit_byte_buf"
                /\ result.payload = [i \in 1..Len(vals) |-> vals[i].value.inner.v]
            /\ ~allU8 =>
                /\ IsErr(result)
                /\ result.payload.msg =
                     "Cannot deserialize composite that is not entirely U8's into bytes"

\* a composite of two different bytes was delivered as a byte buffer
AllBytesRequirementWitness ==
    /\ Issued /\ OnComposite /\ hint.method = "byte_buf"
    /\ result.call = "visit_byte_buf"
    /\ Len(result.payload) >= 2
    /\ result.payload[1] /= result.payload[2]

\* what a composite answers to a seq hint and to a tuple hint
SeqAnswer(c, r) == IsSeqOf(r, StoredValues(c))
TupleAnswer(c, n, r) ==
    IF Len(c.values) = n THEN IsSeqOf(r, StoredValues(c))
    ELSE IsLengthMismatch(r, Len(c.values), n)
AnyAnswer(c, r) ==
    IF c.comp = "Named"
    THEN r.call = "visit_map" /\ r.payload = c.values
    ELSE IsSeqOf(r, c.values)

\* C7 as stated: an any, seq or tuple(len) hint on a Variant is answered as
\* the same hint on its fields composite is.
VariantForwardsAnySeqTuple ==
    (Issued /\ OnVariant /\ hint.method \in {"any", "seq", "tuple"}) =>
        LET c == ShapeOf(de).inner.values
        IN  CASE hint.method = "any" -> AnyAnswer(c, result)
              [] hint.method = "seq" -> SeqAnswer(c, result)
              [] hint.method = "tuple" -> TupleAnswer(c, hint.len, result)

\* C7 amended: a seq or tuple(len) hint on a Variant is answered as the same
\* hint on its fields composite is, whatever the variant's name; an any hint
\* is answered with the enum callback, carrying the variant with its name.
VariantForwardsSeqTuple ==
    (Issued /\ OnVariant /\ hint.method \in {"any", "seq", "tuple"}) =>
        LET v == ShapeOf(de).inner
        IN  CASE hint.method = "any" ->
                    result.call = "visit_enum" /\ result.payload = v
              [] hint.method = "seq" -> SeqAnswer(v.values, result)
              [] hint.method = "tuple" -> TupleAnswer(v.values, hint.len, result)

\* a Variant named Foo with two or more fields answered a tuple hint with
\* the fields as a sequence
VariantForwardsSeqTupleWitness ==
    /\ Issued /\ OnVariant /\ hint.method = "tuple"
    /\ ShapeOf(de).inner.name = "Foo"
    /\ Len(ShapeOf(de).inner.values.values) >= 2
    /\ result.call = "visit_seq"

\* the hints a bit sequence rejects, each with its own error
BitSequenceRejects ==
    {"newtype_struct", "tuple", "tuple_struct", "unit", "unit_struct", "enum",
     "bytes", "byte_buf", "seq", "map"}

\* the (head, bits, data) replay: the BitVecPieces adapter handed to visit_seq
IsReplay(r, b) ==
    /\ r.access = "BitVecPieces" /\ r.call = "visit_seq"
    /\ r.payload.head = b.head /\ r.payload.bits = b.bits /\ r.payload.data = b.data
    /\ r.payload.current_field = "Head"

\* C9 as stated: against a bit sequence the bytes, tuple, map, struct,
\* enum, unit and newtype hints fail, and the any and seq hints reach the
\* (head, bits, data) replay.
BitSequenceOnlyAnySeq ==
    (Issued /\ OnBitSequence) =>
        /\ hint.method \in {"bytes", "byte_buf", "tuple", "tuple_struct", "map", "struct",
                            "enum", "unit", "unit_struct", "newtype_struct"}
                => IsErr(result)
        /\ hint.method \in {"any", "seq"} => IsReplay(result, ShapeOf(de).inner)
        /\ ~IsErr(result) => hint.method \in {"any", "seq"}

\* C9 amended: against a bit sequence the bytes, byte_buf, tuple,
\* tuple_struct, seq, map, enum, unit, unit_struct and newtype_struct hints
\* fail with an error; the any hint and every hint forwarded to it (the
\* scalar hints, option, struct, identifier, ignored_any) reach the
\* (head, bits, data) replay.
BitSequenceRejectsShapes ==
    (Issued /\ OnBitSequence) =>
        IF hint.method \in BitSequenceRejects
        THEN IsErr(result)
        ELSE IsReplay(result, ShapeOf(de).inner)

\* a seq hint on a bit sequence of at least one bit was rejected
BitSequenceRejectsShapesWitness ==
    /\ Issued /\ OnBitSequence /\ hint.method = "seq"
    /\ ShapeOf(de).inner.bits > 0
    /\ IsErr(result)

\* the callback each Primitive tag is delivered through
CallbackOf(tag) ==
    CASE tag = "Bool" -> "visit_bool" [] tag = "Char" -> "visit_char"
      [] tag = "Str" -> "visit_string"
      [] tag = "U8" -> "visit_u8" [] tag = "U16" -> "visit_u16"
      [] tag = "U32" -> "visit_u32" [] tag = "U64" -> "visit_u64"
      [] tag = "U128" -> "visit_u128"
      [] tag = "I8" -> "visit_i8" [] tag = "I16" -> "visit_i16"
      [] tag = "I32" -> "visit_i32" [] tag = "I64" -> "visit_i64"
      [] tag = "I128" -> "visit_i128"
      [] tag \in {"U256", "I256"} -> "visit_bytes"

IsScalarOf(r, p) == r.call = CallbackOf(p.prim) /\ r.payload = p.v

\* C10 as stated: whatever hint is requested of a Primitive, the callback
\* issued is the one of the stored tag, with the stored payload.
PrimitiveCodecEveryHint ==
    (Issued /\ OnPrimitive) => IsScalarOf(result, ShapeOf(de).inner)

\* C10 amended: for every hint other than newtype_struct the callback
\* issued on a Primitive is the one of the stored tag, with the stored
\* payload unchanged and no coercion across widths; a newtype_struct hint is
\* answered with a sequence of one element, the primitive itself.
PrimitiveCodec ==
    (Issued /\ OnPrimitive) =>
        LET p == ShapeOf(de).inner
        IN  IF hint.method = "newtype_struct"
            THEN /\ result.call = "visit_seq"
                 /\ Len(result.payload) = 1
                 /\ result.payload[1] = p
            ELSE IsScalarOf(result, p)

\* a U8 under a u32 hint was delivered through the u8 callback
PrimitiveCodecWitness ==
    /\ Issued /\ OnPrimitive /\ hint.method = "u32"
    /\ ShapeOf(de).inner.prim = "U8"
    /\ result.call = "visit_u8"

\* the i-th answer of the replay of bit sequence b
ReplayAnswer(b, i) ==
    CASE i = 1 -> [some |-> TRUE, v |-> [deser |-> "u8", v |-> b.head]]
      [] i = 2 -> [some |-> TRUE, v |-> [deser |-> "u64", v |-> b.bits]]
      [] i = 3 -> [some |-> TRUE, v |-> [deser |-> "Vec<u8>", v |-> b.data]]
      [] OTHER -> [some |-> FALSE, v |-> 0]

\* the requests made so far were answered head, bits, data, and then nothing
YieldedInOrder ==
    /\ result.access = "BitVecPieces" /\ result.call = "visit_seq"
    /\ \A i \in 1..Len(yielded) : yielded[i] = ReplayAnswer(ShapeOf(de).inner, i)
    /\ Len(yielded) >= 3 => pieces.current_field = "None"

\* C5: a bit sequence decoded against a sequence-shaped target (one that
\* asks for anything or for a sequence) yields exactly 3 elements in the
\* order head, bits, data, one per request, and nothing after the third.
\* Under a seq hint ValueDef::deserialize_seq answers with an error instead
\* and no element is ever yielded.
BitSequenceFieldOrderAnySeq ==
    (Issued /\ OnBitSequence /\ hint.method \in {"any", "seq"}) => YieldedInOrder

\* what a pure transform makes of a context
PureImage(f, c) ==
    CASE f.kind = "identity" -> c
      [] f.kind = "const" -> f.state
      [] f.kind = "succ" -> c + 1

RECURSIVE Preserved(_, _, _)
\* the composites a and b have the same kind, length, names and order, and
\* every child of b is the preserved image of the child of a in its place
PreservedComposite(a, b, f) ==
    /\ b.comp = a.comp
    /\ Len(b.values) = Len(a.values)
    /\ \A i \in 1..Len(a.values) :
          IF a.comp = "Named"
          THEN /\ b.values[i][1] = a.values[i][1]
               /\ Preserved(a.values[i][2], b.values[i][2], f)
          ELSE Preserved(a.values[i], b.values[i], f)

\* the tree out has the shape of the tree in at every node, and each of its
\* contexts is f of the context in its place
Preserved(in, out, f) ==
    /\ out.context = PureImage(f, in.context)
    /\ out.value.def = in.value.def
    /\ CASE in.value.def = "Composite" ->
              PreservedComposite(in.value.inner, out.value.inner, f)
         [] in.value.def = "Variant" ->
              /\ out.value.inner.name = in.value.inner.name
              /\ PreservedComposite(in.value.inner.values, out.value.inner.values, f)
         [] OTHER -> out.value.inner = in.value.inner

\* C8: for every tree and every pure transform f, map_context(f) returns a
\* tree of the same shape, field names, element order, variant names, bit
\* sequences and primitive payloads in which every context is f of the
\* context in its place; map_context(identity) returns the tree itself.
MapContextPreservesStructure ==
    (mapped /= None /\ closure.kind \in {"identity", "const", "succ"}) =>
        /\ Preserved(tree, mapped, closure)
        /\ closure.kind = "identity" => mapped = tree

\* a Named composite of a leaf and a nested tree was mapped with the
\* successor transform
MapContextPreservesStructureWitness ==
    /\ mapped /= None /\ closure.kind = "succ"
    /\ Depth(tree) >= 2
    /\ tree.value.def = "Composite" /\ tree.value.inner.comp = "Named"
    /\ Len(tree.value.inner.values) = 2
    /\ tree.value.inner.values[1][2] /= tree.value.inner.values[2][2]
    /\ mapped.context = tree.context + 1

-----------------------------------------------------------------------------
(* Decoding into struct and enum targets.                                  *)

Decoded == decoded /= None

\* the composite the deserializer holds: itself, or the fields of a variant
FieldsOf(d) ==
    IF ShapeOf(d).def = "Variant" THEN ShapeOf(d).inner.values ELSE ShapeOf(d).inner

\* the deserializer d with the composite c in the place of FieldsOf(d)
WithFields(d, c) ==
    LET shape == IF ShapeOf(d).def = "Variant"
                 THEN ValueDef("Variant", Variant(ShapeOf(d).inner.name, c))
                 ELSE ValueDef("Composite", c)
    IN  CASE d.kind = "Value" -> On("Value", Value(shape, d.val.context))
          [] d.kind = "ValueDef" -> On("ValueDef", shape)
          [] d.kind \in {"Composite", "Variant"} -> On(d.kind, shape.inner)

\* the fields a target looks up by name: those of a struct, or those of the
\* struct-style case of an enum
LooksUpByName(t) == t.ty = "struct" \/ t.cases[1].style = "struct"

\* a struct is decoded from a composite, an enum case from a variant
ShapeFor(t) == IF t.ty = "struct" THEN "Composite" ELSE "Variant"
DeclaredFields(t) == IF t.ty = "struct" THEN t.fields ELSE t.cases[1].fields
DeclaredNames(t) == Range(FieldNamesOf(DeclaredFields(t)))
EntryNames(c) == {c.values[i][1] : i \in 1..Len(c.values)}

\* a Named composite with every declared name is being decoded by name
NamedIntoStruct ==
    /\ Decoded
    /\ LooksUpByName(target)
    /\ ShapeOf(de).def = ShapeFor(target)
    /\ FieldsOf(de).comp = "Named"
    /\ DeclaredNames(target) \subseteq EntryNames(FieldsOf(de))

\* two decodes end alike: both fail, or both succeed with the same value
SameOutcome(x, y) == x.ok = y.ok /\ (x.ok => x.val = y.val)

Orders(n) == {p \in [1..n -> 1..n] : \A i, k \in 1..n : p[i] = p[k] => i = k}

Permuted(entries, p) == [i \in 1..Len(entries) |-> entries[p[i]]]

\* every declared name has exactly one entry, its value is of the declared
\* type, and an enum target declares the case the variant names
Decodable ==
    /\ \A j \in 1..Len(DeclaredFields(target)) :
          \E i \in 1..Len(FieldsOf(de).values) :
              /\ FieldsOf(de).values[i][1] = DeclaredFields(target)[j].name
              /\ Field_deserialize(DeclaredFields(target)[j].ty, FieldsOf(de).values[i][2]).ok
              /\ \A k \in 1..Len(FieldsOf(de).values) :
                    FieldsOf(de).values[k][1] = DeclaredFields(target)[j].name => k = i
    /\ target.ty = "enum" => ShapeOf(de).inner.name = target.cases[1].name

\* C1: a Named composite whose entries include every name a struct target
\* declares decodes to the same result in every order of its entries, and
\* successfully when each declared name has one entry of the declared type.
NameOrderIndependence ==
    NamedIntoStruct =>
        /\ \A p \in Orders(Len(FieldsOf(de).values)) :
              SameOutcome(
                  Target_deserialize(target,
                      WithFields(de, Named(Permuted(FieldsOf(de).values, p)))),
                  decoded)
        /\ Decodable => decoded.ok

\* the struct Foo { a, b } was decoded from a ValueDef whose entries are in
\* the order b, a
NameOrderIndependenceWitness ==
    /\ NamedIntoStruct /\ decoded.ok
    /\ target.ty = "struct" /\ target.fields = FieldsAB
    /\ de.kind = "ValueDef"
    /\ Len(FieldsOf(de).values) = 2
    /\ FieldsOf(de).values[1][1] = "b" /\ FieldsOf(de).values[2][1] = "a"
    /\ decoded.val.vals = <<1, TRUE>>

IsDeclaredEntry(entry) == entry[1] \in DeclaredNames(target)

\* C3: a Named composite holding every declared field and any number of
\* further entries decodes to the result of decoding its declared entries
\* alone, and successfully when those are one of the declared type each.
SurplusFieldTolerance ==
    NamedIntoStruct =>
        /\ SameOutcome(
              decoded,
              Target_deserialize(target,
                  WithFields(de, Named(SelectSeq(FieldsOf(de).values, IsDeclaredEntry)))))
        /\ Decodable => decoded.ok

\* the struct case Foo { a, b } was decoded from a variant with a further
\* entry c between b and a
SurplusFieldToleranceWitness ==
    /\ NamedIntoStruct /\ decoded.ok
    /\ target.ty = "enum" /\ DeclaredFields(target) = FieldsAB
    /\ Len(FieldsOf(de).values) = 3
    /\ FieldsOf(de).values[1][1] = "b"
    /\ FieldsOf(de).values[2][1] = "c"
    /\ FieldsOf(de).values[2][2].value.def = "Variant"
    /\ FieldsOf(de).values[3][1] = "a"
    /\ decoded.val = [name |-> "Foo", vals |-> <<1, TRUE>>]

\* a variant without fields is being decoded into an enum that declares
\* its case without fields, in whatever style
EmptyVariantIntoEnum ==
    /\ Decoded
    /\ target.ty = "enum" /\ target.cases[1].fields = <<>>
    /\ ShapeOf(de).def = "Variant"
    /\ ShapeOf(de).inner.name = target.cases[1].name
    /\ ShapeOf(de).inner.values.values = <<>>

\* C6: a Variant with empty fields, Named or Unnamed, wrapped in a Value or
\* bare, decodes successfully to its case whether the target declares the
\* case as Foo, as Foo() or as Foo {}.
UnitVariantEquivalence ==
    EmptyVariantIntoEnum =>
        /\ decoded.ok
        /\ decoded.val = [name |-> ShapeOf(de).inner.name, vals |-> <<>>]

\* a bare Variant with the fields Named([]) was decoded into the case Foo
UnitVariantEquivalenceWitness ==
    /\ EmptyVariantIntoEnum /\ decoded.ok
    /\ de.kind = "Variant"
    /\ ShapeOf(de).inner.values.comp = "Named"
    /\ target.cases[1].style = "unit"

-----------------------------------------------------------------------------
(* Hints that do not fit the shape.                                        *)

\* the hint asks for a scalar of a composite, or for a scalar or raw bytes
\* of a variant
MisfitHint ==
    \/ OnComposite /\ hint.method \in ScalarHints
    \/ OnVariant /\ hint.method \in ScalarHints \cup {"bytes", "byte_buf"}

\* C11 as stated: a hint that is structurally incompatible with the shape
\* (a bytes hint on a Variant, a scalar hint on a Composite) makes the
\* negotiation fail with an error instead of a callback for the actual shape.
MisfitHintFails ==
    (Issued /\ MisfitHint) => IsErr(result)

\* C11 amended: a scalar hint on a Composite and a scalar, bytes or byte_buf
\* hint on a Variant are forwarded to any: the core raises no error and
\* issues the callback of the actual shape (map or sequence for a Composite,
\* enum for a Variant), and the rejection is left to the target.
MisfitHintForwarded ==
    (Issued /\ MisfitHint) =>
        /\ ~IsErr(result)
        /\ result = Deserialize_on(de, Hint("any"))
        /\ OnComposite =>
              result.call = (IF ShapeOf(de).inner.comp = "Named" THEN "visit_map" ELSE "visit_seq")
        /\ OnVariant => result.call = "visit_enum" /\ result.payload = ShapeOf(de).inner

\* a u32 hint was issued on a Value holding a Named composite of two entries
MisfitHintForwardedWitness ==
    /\ Issued /\ MisfitHint /\ OnComposite
    /\ de.kind = "Value" /\ hint.method = "u32"
    /\ ShapeOf(de).inner.comp = "Named" /\ Len(ShapeOf(de).inner.values) = 2
    /\ result.call = "visit_map"

-----------------------------------------------------------------------------
(* Bit sequences decoded back into bit sequences.                          *)

\* C12: for every bit sequence b, of any length, decoding the value built
\* from b into a bit-sequence target gives a bit sequence equal to b:
\* what extraction gathered and the replay handed over is the head, the bit
\* count and every backing byte of b, in this order and unchanged, and the
\* target that reads these three has b again.
BitSequenceRoundTrip ==
    (Issued /\ OnBitSequence /\ hint.method = "struct" /\ Len(yielded) >= 3) =>
        /\ \A i \in 1..3 : yielded[i] = ReplayAnswer(ShapeOf(de).inner, i)
        /\ BitVec_visit_seq(yielded) = Ok(ShapeOf(de).inner)

\* a bit sequence that starts inside its first byte, ends inside its second
\* and is no multiple of 8 bits long was decoded
BitSequenceRoundTripWitness ==
    /\ Issued /\ OnBitSequence /\ hint.method = "struct" /\ Len(yielded) = 3
    /\ ShapeOf(de).inner.head > 0
    /\ ShapeOf(de).inner.bits % 8 /= 0
    /\ Len(ShapeOf(de).inner.data) = 2
    /\ ShapeOf(de).inner.data[1] /= ShapeOf(de).inner.data[2]
    /\ BitVec_visit_seq(yielded).ok

-----------------------------------------------------------------------------
(* How a target is filled.                                                 *)

\* an enum target is decoding a variant that names its case
CaseSelected ==
    /\ Decoded /\ target.ty = "enum"
    /\ ShapeOf(de).def = "Variant"
    /\ ShapeOf(de).inner.name = target.cases[1].name

\* the stored value at position i of the composite being decoded is not of
\* the type of the declared field j
IllTyped(j, i) ==
    ~Field_deserialize(DeclaredFields(target)[j].ty, StoredValues(FieldsOf(de))[i]).ok

\* the declared fields are filled by position: a struct from an Unnamed
\* composite, a struct-style case from Unnamed fields, or a tuple-style
\* case from fields of the declared number
ByPosition ==
    /\ Decoded
    /\ \/ target.ty = "struct" /\ ShapeOf(de).def = "Composite" /\ FieldsOf(de).comp = "Unnamed"
       \/ CaseSelected /\ target.cases[1].style = "struct" /\ FieldsOf(de).comp = "Unnamed"
       \/ /\ CaseSelected /\ target.cases[1].style = "tuple"
          /\ Len(FieldsOf(de).values) = Len(DeclaredFields(target))

-----------------------------------------------------------------------------
(* Nesting depth.                                                          *)

\* C14: mapping the contexts of a tree nested deeper than the maximum
\* recursion depth fails with a RecursionLimitExceeded error.  The maximum
\* is taken to lie below MaxDepth, the deepest nesting built here, so every
\* tree of that depth would have to be refused.
RecursionLimitEnforced ==
    (mapped /= None /\ Depth(tree) >= MaxDepth) =>
        mapped = Failed(Error_from_str("RecursionLimitExceeded"))

-----------------------------------------------------------------------------
(* The any hint.                                                           *)

\* C15: under an any hint the callback follows the stored shape alone: a
\* Named composite is delivered as a map of its (name, value) entries in
\* stored order, an Unnamed composite as a sequence of its values in stored
\* order, and a primitive through the scalar callback of its own tag with
\* its own payload.
AnyFollowsShape ==
    (Issued /\ hint.method = "any") =>
        /\ OnComposite =>
             LET c == ShapeOf(de).inner
             IN  IF c.comp = "Named"
                 THEN /\ result.access = "MapDeserializer"
                      /\ result.call = "visit_map"
                      /\ result.payload = c.values
                 ELSE IsSeqOf(result, c.values)
        /\ OnPrimitive => IsScalarOf(result, ShapeOf(de).inner)

\* a Named composite of two entries was delivered under any as a map whose
\* first entry is the composite's first entry
AnyFollowsShapeWitness ==
    /\ Issued /\ hint.method = "any" /\ OnComposite
    /\ ShapeOf(de).inner.comp = "Named"
    /\ Len(ShapeOf(de).inner.values) >= 2
    /\ ShapeOf(de).inner.values[1] /= ShapeOf(de).inner.values[2]
    /\ result.call = "visit_map"
    /\ result.payload[1] = ShapeOf(de).inner.values[1]

\* C16 as stated: under a seq or an any hint a composite yields its values
\* as a sequence in stored order, the names of a Named composite discarded.
SeqOrAnyYieldsSequence ==
    (Issued /\ OnComposite /\ hint.method \in {"seq", "any"}) =>
        IsSeqOf(result, StoredValues(ShapeOf(de).inner))

\* C16 amended: under a seq hint a composite yields its values as a
\* sequence in stored order, the names of a Named composite discarded;
\* under an any hint an Unnamed composite yields the same sequence, and a
\* Named composite is delivered as a map with its names kept.
SeqYieldsSequence ==
    (Issued /\ OnComposite /\ hint.method \in {"seq", "any"}) =>
        LET c == ShapeOf(de).inner
        IN  IF hint.method = "any" /\ c.comp = "Named"
            THEN result.call = "visit_map" /\ result.payload = c.values
            ELSE IsSeqOf(result, StoredValues(c))

\* a Named composite of two different values answered a seq hint with the
\* sequence of the two values, first value first
SeqYieldsSequenceWitness ==
    /\ Issued /\ OnComposite /\ hint.method = "seq"
    /\ ShapeOf(de).inner.comp = "Named"
    /\ Len(ShapeOf(de).inner.values) = 2
    /\ ShapeOf(de).inner.values[1][2] /= ShapeOf(de).inner.values[2][2]
    /\ result.call = "visit_seq"
    /\ result.payload = <<ShapeOf(de).inner.values[1][2], ShapeOf(de).inner.values[2][2]>>

-----------------------------------------------------------------------------
(* The map hint.                                                           *)

\* C17 as stated: a map hint on a Named composite is delivered as a map of
\* its (name, value) entries, and a map hint on an Unnamed composite, empty
\* or not, fails.
MapOnlyNamed ==
    (Issued /\ OnComposite /\ hint.method = "map") =>
        LET c == ShapeOf(de).inner
        IN  IF c.comp = "Named"
            THEN result.call = "visit_map" /\ result.payload = c.values
            ELSE IsErr(result)

\* C17 amended: a map hint on a Named composite is delivered as a map of
\* its (name, value) entries in stored order; a map hint on an Unnamed
\* composite, empty or not, does not fail in the core: it is answered as an
\* any hint is, with the sequence of the values in stored order.
MapHintForwarded ==
    (Issued /\ OnComposite /\ hint.method = "map") =>
        LET c == ShapeOf(de).inner
        IN  /\ ~IsErr(result)
            /\ IF c.comp = "Named"
               THEN /\ result.access = "MapDeserializer"
                    /\ result.call = "visit_map"
                    /\ result.payload = c.values
               ELSE IsSeqOf(result, c.values)

\* an Unnamed composite of two or more values answered a map hint with the
\* sequence of its values
MapHintForwardedWitness ==
    /\ Issued /\ OnComposite /\ hint.method = "map"
    /\ ShapeOf(de).inner.comp = "Unnamed"
    /\ Len(ShapeOf(de).inner.values) >= 2
    /\ result.call = "visit_seq"
    /\ result.payload = ShapeOf(de).inner.values

-----------------------------------------------------------------------------
(* The unit hints.                                                         *)

\* the composite a unit hint is decided on: the composite itself, or the
\* fields of a Variant
UnitSubject == IF OnVariant THEN ShapeOf(de).inner.values ELSE ShapeOf(de).inner

\* C18: a unit or unit_struct hint on a composite, or on a Variant through
\* its fields, is answered with the unit callback if and only if the
\* composite has no elements, Named or Unnamed alike; with one element or
\* more it fails with the non-empty-composite error.
UnitOnlyWhenEmpty ==
    (Issued /\ (OnComposite \/ OnVariant) /\ hint.method \in {"unit", "unit_struct"}) =>
        IF Len(UnitSubject.values) = 0
        THEN result.call = "visit_unit"
        ELSE /\ IsErr(result)
             /\ result.payload.msg =
                  "Cannot deserialize non-empty Composite into a unit value"

\* a unit hint on a Named composite of one entry or more was refused
UnitOnlyWhenEmptyWitness ==
    /\ Issued /\ OnComposite /\ hint.method = "unit"
    /\ ShapeOf(de).inner.comp = "Named"
    /\ Len(ShapeOf(de).inner.values) >= 1
    /\ IsErr(result)

-----------------------------------------------------------------------------
(* A struct filled from an Unnamed composite.                              *)

\* a struct, or the struct-style case selected, is being decoded from an
\* Unnamed composite
UnnamedIntoStruct ==
    /\ Decoded
    /\ \/ target.ty = "struct" /\ ShapeOf(de).def = "Composite"
       \/ CaseSelected /\ target.cases[1].style = "struct"
    /\ FieldsOf(de).comp = "Unnamed"

\* C19: an Unnamed composite decoded into a struct, or into a struct-style
\* case, fills the declared fields by position, and the decode succeeds
\* only when the composite has as many elements as fields are declared:
\* with fewer or with more elements it fails.
UnnamedStructExactCount ==
    UnnamedIntoStruct =>
        LET elems == FieldsOf(de).values
            fields == DeclaredFields(target)
        IN  /\ decoded.ok => Len(elems) = Len(fields)
            /\ decoded.ok =>
                 \A j \in 1..Len(fields) :
                     j <= Len(elems) =>
                         Ok(decoded.val.vals[j]) = Field_deserialize(fields[j].ty, elems[j])

-----------------------------------------------------------------------------
(* The newtype hint.                                                       *)

\* C20: a newtype_struct hint on a Composite, a Variant or a Primitive is
\* answered, whatever the wrapper name, with a sequence of exactly one
\* element, and that element is the whole stored value as it is: the
\* composite's own elements are not unpacked.
NewtypePassthrough ==
    (Issued /\ hint.method = "newtype_struct"
       /\ (OnComposite \/ OnVariant \/ OnPrimitive)) =>
        /\ result.access = "SeqDeserializer"
        /\ result.call = "visit_seq"
        /\ Len(result.payload) = 1
        /\ result.payload[1] = ShapeOf(de).inner

\* a Named composite of two entries answered a newtype_struct hint with a
\* sequence of one element that has the two entries
NewtypePassthroughWitness ==
    /\ Issued /\ hint.method = "newtype_struct" /\ OnComposite
    /\ ShapeOf(de).inner.comp = "Named"
    /\ Len(ShapeOf(de).inner.values) = 2
    /\ Len(result.payload) = 1
    /\ Len(result.payload[1].values) = 2

-----------------------------------------------------------------------------
(* The enum hint.                                                          *)

\* C21: under an enum(name, case_names) hint a Variant is delivered through
\* the enum callback, reporting its own name as the selected case and its
\* fields composite, unchanged, as the payload; the variant's name is not
\* checked against case_names nor against the enum name, so a name outside
\* case_names is not refused.
EnumHintSelectsOwnName ==
    (Issued /\ OnVariant /\ hint.method = "enum") =>
        /\ ~IsErr(result)
        /\ result.access = "EnumAccess"
        /\ result.call = "visit_enum"
        /\ Variant_variant_seed(result.payload)
             = <<ShapeOf(de).inner.name, ShapeOf(de).inner.values>>

\* a Variant whose name is none of the hint's case names, with fields of two
\* elements, answered the enum hint with its own name and its fields
EnumHintSelectsOwnNameWitness ==
    /\ Issued /\ OnVariant /\ hint.method = "enum"
    /\ \A i \in 1..Len(hint.fields) : hint.fields[i] /= ShapeOf(de).inner.name
    /\ Len(ShapeOf(de).inner.values.values) >= 2
    /\ result.call = "visit_enum"
    /\ result.payload.name = ShapeOf(de).inner.name
    /\ result.payload.values = ShapeOf(de).inner.values

-----------------------------------------------------------------------------
(* The newtype-style case of an enum.                                      *)

\* the selected case wraps one payload
NewtypeCaseSelected == CaseSelected /\ target.cases[1].style = "newtype"

\* the fields of the variant being decoded are exactly one unnamed field
OneUnnamedField ==
    FieldsOf(de).comp = "Unnamed" /\ Len(FieldsOf(de).values) = 1

\* the payload type ty decoded from the one value v
PayloadFromValue(ty, v) == Field_deserialize(ty, v)

\* a case wrapping the one payload got, or the failure of reading it
Wrapping(got) == Built("Foo", FirstFailure(<<got>>, <<got.val>>))

\* C22: when the selected case wraps a single payload, fields that are
\* exactly one unnamed field deliver that field's value as the payload, so
\* that Unnamed([U8(x)]) decodes into a case wrapping a u8 as x; for other
\* field shapes the whole fields composite is delivered as one value.
NewtypeCaseUnwraps ==
    NewtypeCaseSelected =>
        LET ty == target.cases[1].fields[1].ty
        IN  IF OneUnnamedField
            THEN decoded = Wrapping(PayloadFromValue(ty, FieldsOf(de).values[1]))
            ELSE decoded = Wrapping(Composite_newtype_variant_seed(FieldsOf(de), ty))

-----------------------------------------------------------------------------
(* The context of a Value.                                                 *)

\* the shape a Value holds, as a deserializer of its own
Unwrapped(d) == On(ShapeOf(d).def, ShapeOf(d).inner)

\* C23: for every hint, a Value holding a Composite, a Variant or a
\* Primitive is answered exactly as the shape it holds is when given the
\* same hint directly, and the answer is the same whatever context the
\* Value carries.
ContextNeverInterpreted ==
    (Issued /\ de.kind = "Value" /\ ~OnBitSequence) =>
        /\ result = Deserialize_on(Unwrapped(de), hint)
        /\ \A ctx \in Contexts :
              result = Deserialize_on(On("Value", Value(de.val.value, ctx)), hint)

-----------------------------------------------------------------------------
(* Bit-sequence extraction: the writes BitVecSerializer accepts.           *)

\* a write the extraction is meant for: a byte under head, a 64-bit count
\* under bits, a sequence of bytes (or one of its bytes) under data
AcceptedWrite(w) ==
    \/ w[1] = "head" /\ w[2].ty = "u8"
    \/ w[1] = "bits" /\ w[2].ty = "u64"
    \/ w[1] = "data" /\ w[2].ty \in {"seq", "u8"}

\* the error a write that is not accepted is refused with
RefusalOf(w) ==
    CASE w[1] \notin {"", "head", "bits", "data"} ->
            Error_from_string("BitVec serialization encountered unexpected field '{}'",
                              <<w[1]>>)
      [] w[1] \in {"", "head", "bits", "data"} /\ w[2].ty = "u8" ->
            Error_from_str(
              "BitVec serialization only expects serialize_u8 to be called for 'head' prop")
      [] w[1] \in {"", "head", "bits", "data"} /\ w[2].ty = "u64" ->
            Error_from_str(
              "BitVec serialization only expects serialize_u64 to be called for 'len' prop")
      [] w[1] \in {"", "head", "bits"} /\ w[2].ty \in {"seq", "seq_u64"} ->
            Error_from_str(
              "BitVec serialization only expects serialize_seq to be called for 'data' prop")
      [] w[1] = "data" /\ w[2].ty = "seq_u64" ->
            Error_from_str(
              "BitVec serialization only expects serialize_u64 to be called for 'len' prop")
      [] w[1] \in {"", "head", "bits", "data"} /\ w[2].ty = "bool" ->
            Error_from_str("Unsupported BitVec serialization method")
      [] w[1] \in {"", "head", "bits", "data"} /\ w[2].ty = "u128" ->
            Error_from_string("u128 is not supported", <<>>)

\* C24: during extraction the accepted writes are a byte under the field
\* head, a 64-bit count under the field bits and a sequence of bytes under
\* the field data; every other write (an unknown field name, a u64 outside
\* bits, a sequence outside data, a byte outside head and data, any other
\* kind of value) is refused with the serializer's error, nothing is
\* written after it, and the extraction as a whole returns that error.
ExtractionAcceptsOnly ==
    /\ \A i \in 1..Len(written) :
          ~AcceptedWrite(written[i]) =>
              /\ i = Len(written)
              /\ serializer.error = RefusalOf(written[i])
              /\ gathered /= None => gathered = Failed(RefusalOf(written[i]))
    /\ (\A i \in 1..Len(written) : AcceptedWrite(written[i])) => ~IsErr(serializer.error)

\* after two accepted writes a byte written under the field bits was
\* refused, and the extraction returned an error
ExtractionAcceptsOnlyWitness ==
    /\ Len(written) = 3
    /\ written[3][1] = "bits" /\ written[3][2].ty = "u8"
    /\ gathered /= None /\ ~gathered.ok

-----------------------------------------------------------------------------
(* The option hint.                                                        *)

\* C25: an option hint is answered exactly as an any hint is, for every
\* shape: never with the none or the some callback, but with the map or
\* the sequence of a composite, the enum callback of a Variant, the scalar
\* callback of a primitive, or the three-element replay of a bit sequence.
OptionAsAny ==
    (Issued /\ hint.method = "option") =>
        /\ result = Deserialize_on(de, Hint("any"))
        /\ result.call \notin {"visit_none", "visit_some", "Err"}
        /\ OnComposite => AnyAnswer(ShapeOf(de).inner, result)
        /\ OnVariant => result.call = "visit_enum" /\ result.payload = ShapeOf(de).inner
        /\ OnPrimitive => IsScalarOf(result, ShapeOf(de).inner)
        /\ OnBitSequence =>
             /\ result.access = "BitVecPieces" /\ result.call = "visit_seq"
             /\ result.payload.head = ShapeOf(de).inner.head
             /\ result.payload.bits = ShapeOf(de).inner.bits
             /\ result.payload.data = ShapeOf(de).inner.data

\* an option hint on a primitive was answered with the primitive's own
\* scalar callback
OptionAsAnyWitness ==
    /\ Issued /\ hint.method = "option" /\ OnPrimitive
    /\ ShapeOf(de).inner.prim = "U8"
    /\ result.call = "visit_u8"

-----------------------------------------------------------------------------
(* map_context with a transform that keeps state.                          *)

RECURSIVE NumberedByDepth(_, _, _)
\* every child of b is numbered n in the place of the child of a
NumberedComposite(a, b, n) ==
    /\ b.comp = a.comp
    /\ Len(b.values) = Len(a.values)
    /\ \A i \in 1..Len(a.values) :
          IF a.comp = "Named"
          THEN /\ b.values[i][1] = a.values[i][1]
               /\ NumberedByDepth(a.values[i][2], b.values[i][2], n)
          ELSE NumberedByDepth(a.values[i], b.values[i], n)

\* the tree out has the shape of the tree in, its root carries n, and every
\* node below carries n plus its depth under the root
NumberedByDepth(in, out, n) ==
    /\ out.context = n
    /\ out.value.def = in.value.def
    /\ CASE in.value.def = "Composite" ->
              NumberedComposite(in.value.inner, out.value.inner, n + 1)
         [] in.value.def = "Variant" ->
              /\ out.value.inner.name = in.value.inner.name
              /\ NumberedComposite(in.value.inner.values, out.value.inner.values, n + 1)
         [] OTHER -> out.value.inner = in.value.inner

\* C26: map_context with a counting transform calls it on a node's own
\* context before any of its descendants, and hands every child its own
\* clone of the transform as it stands after that call: what mapping one
\* child does to its clone is not seen by a sibling, so that nodes are
\* numbered by their depth on the path from the root, not in traversal
\* order.
MapContextClonesState ==
    (mapped /= None /\ closure.kind = "counter") =>
        NumberedByDepth(tree, mapped, closure.state)

\* a composite holding the same nested tree twice was mapped with the
\* counting transform: both children carry the number after the root's and
\* the first grandchild the one after that
MapContextClonesStateWitness ==
    /\ mapped /= None /\ closure.kind = "counter"
    /\ Depth(tree) >= 2
    /\ tree.value.def = "Composite" /\ tree.value.inner.comp = "Unnamed"
    /\ Len(tree.value.inner.values) = 2
    /\ mapped.context = closure.state
    /\ mapped.value.inner.values[1].context = closure.state + 1
    /\ mapped.value.inner.values[2].context = closure.state + 1
    /\ mapped.value.inner.values[1].value.def = "Composite"
    /\ mapped.value.inner.values[1].value.inner.comp = "Unnamed"
    /\ Len(mapped.value.inner.values[1].value.inner.values) >= 1
    /\ mapped.value.inner.values[1].value.inner.values[1].context = closure.state + 2

-----------------------------------------------------------------------------
(* Bit-sequence extraction: field order and multiplicity.                  *)

IsHeadWrite(w) == w[1] = "head"
IsBitsWrite(w) == w[1] = "bits"

\* the value of the last write in a sequence of writes that is not empty
LastWritten(writes) == writes[Len(writes)][2].v

RECURSIVE DataBytesWritten(_)
\* the bytes written under data, in the order written
DataBytesWritten(writes) ==
    IF writes = <<>> THEN <<>>
    ELSE (IF Head(writes)[1] /= "data" THEN <<>>
          ELSE IF Head(writes)[2].ty = "seq" THEN Head(writes)[2].v
          ELSE <<Head(writes)[2].v>>)
         \o DataBytesWritten(Tail(writes))

\* C27: extraction enforces neither the order of the fields nor how often
\* each is written: over a sequence of accepted writes it succeeds if and
\* only if a head byte and a bits count were each written at least once,
\* in whatever order; the pieces then hold the head written last, the bits
\* written last and every data byte in the order written, an empty buffer
\* when no data was written; otherwise it fails with the gathering error.
ExtractionIgnoresOrder ==
    (gathered /= None /\ \A i \in 1..Len(written) : AcceptedWrite(written[i])) =>
        /\ gathered.ok <=>
              /\ SelectSeq(written, IsHeadWrite) /= <<>>
              /\ SelectSeq(written, IsBitsWrite) /= <<>>
        /\ gathered.ok =>
              /\ gathered.val.head = LastWritten(SelectSeq(written, IsHeadWrite))
              /\ gathered.val.bits = LastWritten(SelectSeq(written, IsBitsWrite))
              /\ gathered.val.data = DataBytesWritten(written)
        /\ ~gathered.ok =>
              gathered.val = Error_from_str(
                "Could not gather together the BitVec pieces required during serialization")

\* bits was written before head, head twice with different bytes and data
\* never: the pieces hold the second head and an empty buffer
ExtractionIgnoresOrderWitness ==
    /\ gathered /= None /\ gathered.ok
    /\ Len(written) = 3
    /\ written[1][1] = "bits" /\ written[2][1] = "head" /\ written[3][1] = "head"
    /\ written[2][2].v /= written[3][2].v
    /\ gathered.val.head = written[3][2].v
    /\ gathered.val.data = <<>>

-----------------------------------------------------------------------------
(* Errors on the way out of a decode.                                      *)

\* a hint was issued on a deserializer that no target drives
HintIssued == de /= None /\ target = None /\ Issued

\* the errors the core raises at the outermost call are the result of that
\* call, whatever the value is wrapped in, and no element is handed out
\* after one
CoreErrorsReturned ==
    HintIssued =>
        /\ (OnComposite /\ hint.method \in {"bytes", "byte_buf"}
              /\ \E i \in 1..Len(FieldsOf(de).values) :
                    ~IsU8Value(StoredValues(FieldsOf(de))[i])) =>
              result = Error_from_str(
                "Cannot deserialize composite that is not entirely U8's into bytes")
        /\ ((OnComposite \/ OnVariant) /\ hint.method \in {"tuple", "tuple_struct"}
              /\ Len(FieldsOf(de).values) /= hint.len) =>
              result = Error_from_string(
                "Cannot deserialize composite of length {} into tuple of length {}",
                <<Len(FieldsOf(de).values), hint.len>>)
        /\ ((OnComposite \/ OnVariant) /\ hint.method \in {"unit", "unit_struct"}
              /\ FieldsOf(de).values /= <<>>) =>
              result = Error_from_str(
                "Cannot deserialize non-empty Composite into a unit value")
        /\ (OnBitSequence /\ hint.method = "seq") =>
              result = Error_from_str("Cannot deserialize BitSequence into a sequence")
        /\ (OnBitSequence /\ hint.method = "map") =>
              result = Error_from_str("Cannot deserialize BitSequence into a map")
        /\ IsErr(result) => (pieces = None /\ yielded = <<>>)

\* the error of a refused write, or of the gathering, is what the
\* extraction returns, and a decode of the bit sequence returns it in turn
\* without a call on the visitor
ExtractionErrorsReturned ==
    (serializer /= None /\ gathered /= None) =>
        /\ \A i \in 1..Len(written) :
              ~AcceptedWrite(written[i]) => gathered = Failed(RefusalOf(written[i]))
        /\ ((\A i \in 1..Len(written) : AcceptedWrite(written[i])) /\ ~gathered.ok) =>
              gathered = Failed(Error_from_str(
                "Could not gather together the BitVec pieces required during serialization"))
        /\ (Issued /\ ~gathered.ok) =>
              (result = gathered.val /\ pieces = None /\ yielded = <<>>)
        /\ (Issued /\ gathered.ok) =>
              result = Visit("BitVecPieces", "visit_seq", gathered.val)

\* the sequence types among the types of fields, and the type of their
\* elements
SeqTypes == {"Vec<u8>", "Vec<Vec<u8>>"}
ElementType(ty) == IF ty = "Vec<u8>" THEN "u8" ELSE "Vec<u8>"

\* the values read as the elements of a sequence: those of a composite,
\* or of the fields of a variant
HoldsElements(v) == v.value.def \in {"Composite", "Variant"}
ElementsOf(v) ==
    StoredValues(IF v.value.def = "Variant" THEN v.value.inner.values ELSE v.value.inner)

RECURSIVE Fits(_, _)
\* the value v is of the type ty: a U8 for u8, a Bool for bool, and for a
\* sequence type a composite or a variant all of whose values are of the
\* element type
Fits(ty, v) ==
    CASE ty = "u8" -> v.value.def = "Primitive" /\ v.value.inner.prim = "U8"
      [] ty = "bool" -> v.value.def = "Primitive" /\ v.value.inner.prim = "Bool"
      [] ty \in SeqTypes ->
            /\ HoldsElements(v)
            /\ \A i \in 1..Len(ElementsOf(v)) : Fits(ElementType(ty), ElementsOf(v)[i])

\* how serde's messages describe the value a visitor was offered, and the
\* type it expected
Seen(v) ==
    CASE v.value.def = "Primitive" /\ v.value.inner.prim = "U8" ->
            "integer " \o Backquoted(ToString(v.value.inner.v))
      [] v.value.def = "Primitive" /\ v.value.inner.prim = "Bool" ->
            "boolean " \o Backquoted(IF v.value.inner.v THEN "true" ELSE "false")
      [] v.value.def = "Composite" /\ v.value.inner.comp = "Named" -> "map"
      [] v.value.def = "Composite" /\ v.value.inner.comp = "Unnamed" -> "sequence"
      [] v.value.def = "Variant" -> "enum"
      [] v.value.def = "BitSequence" -> "sequence"
ExpectedType(ty) ==
    CASE ty = "u8" -> "u8" [] ty = "bool" -> "a boolean" [] ty \in SeqTypes -> "a sequence"

RECURSIVE InnermostError(_, _)
\* the error raised deepest inside reading a value v that is not of the
\* type ty: inside a value read as a sequence, that of the first
\* element that is not of the element type, found level by level;
\* otherwise the core's refusal of a bit sequence asked for a sequence, or
\* the refusal of v by the visitor of ty
InnermostError(ty, v) ==
    IF ty \in SeqTypes /\ HoldsElements(v)
    THEN LET elems == ElementsOf(v)
             first == CHOOSE i \in 1..Len(elems) :
                         /\ ~Fits(ElementType(ty), elems[i])
                         /\ \A k \in 1..(i - 1) : Fits(ElementType(ty), elems[k])
         IN  InnermostError(ElementType(ty), elems[first])
    ELSE IF ty \in SeqTypes /\ v.value.def = "BitSequence"
    THEN Error_from_str("Cannot deserialize BitSequence into a sequence")
    ELSE Error_custom("invalid type: " \o Seen(v) \o ", expected " \o ExpectedType(ty))

\* the declared fields are filled by name: a struct from a Named
\* composite, a struct-style case from Named fields
ByName ==
    /\ Decoded /\ LooksUpByName(target)
    /\ target.ty = "struct" => ShapeOf(de).def = "Composite"
    /\ target.ty = "enum" => CaseSelected
    /\ FieldsOf(de).comp = "Named"

\* entry i is under the name of a declared field, and either an earlier
\* entry is under the same name or its value is not of the field's type
Repeats(i) ==
    \E k \in 1..(i - 1) : FieldsOf(de).values[k][1] = FieldsOf(de).values[i][1]
BadEntry(i) ==
    LET j == FieldIndex(DeclaredFields(target), FieldsOf(de).values[i][1])
    IN  j /= 0 /\ (Repeats(i) \/ ~Fits(DeclaredFields(target)[j].ty,
                                        FieldsOf(de).values[i][2]))

\* what the derived visitors print as the thing they expect
ExpectedTarget ==
    IF target.ty = "struct" THEN "struct " \o target.name
    ELSE "struct variant " \o target.name \o "::" \o target.cases[1].name

\* the errors raised while a target is decoded, by the core or by the
\* visitors of the target, of its fields and of their elements, are the
\* result of the decode
TargetErrorsReturned ==
    (target /= None /\ Decoded) =>
        LET fields == DeclaredFields(target)
            values == StoredValues(FieldsOf(de))
        IN
        \* the core, under the wrappers of the value
        /\ (CaseSelected /\ target.cases[1].style = "tuple"
              /\ Len(values) /= Len(fields)) =>
              decoded = Failed(Error_from_string(
                          "Cannot deserialize composite of length {} into tuple of length {}",
                          <<Len(values), Len(fields)>>))
        /\ (CaseSelected /\ target.cases[1].style = "unit" /\ values /= <<>>) =>
              decoded = Failed(Error_from_str(
                          "Cannot deserialize non-empty Composite into a unit value"))
        /\ (OnBitSequence /\ target.ty = "enum") =>
              decoded = Failed(Error_from_string(
                          "Cannot deserialize BitSequence into the enum {}", <<target.name>>))
        \* the visitor of the target itself
        /\ (OnPrimitive /\ ShapeOf(de).inner = Prim("Str", "a\"b")) =>
              decoded = Failed(Error_custom(
                          "invalid type: string \"a\\\"b\", expected "
                          \o (IF target.ty = "struct" THEN "struct " ELSE "enum ")
                          \o target.name))
        /\ (target.ty = "enum" /\ OnVariant /\ ~CaseSelected) =>
              decoded = Failed(Error_custom(
                          "unknown variant " \o Backquoted(ShapeOf(de).inner.name)
                          \o ", expected " \o Backquoted(target.cases[1].name)))
        \* the fields, by position
        /\ ByPosition =>
              LET n == IF Len(values) < Len(fields) THEN Len(values) ELSE Len(fields)
              IN  /\ \A j \in 1..n :
                        (/\ ~Fits(fields[j].ty, values[j])
                         /\ \A k \in 1..(j - 1) : Fits(fields[k].ty, values[k])) =>
                            decoded = Failed(InnermostError(fields[j].ty, values[j]))
                  /\ (/\ Len(values) < Len(fields)
                      /\ \A k \in 1..n : Fits(fields[k].ty, values[k])) =>
                        decoded = Failed(Error_invalid_length(Len(values),
                                    ExpectedTarget \o " with " \o ToString(Len(fields))
                                    \o (IF Len(fields) = 1 THEN " element" ELSE " elements")))
        \* the fields, by name
        /\ ByName =>
              \A i \in 1..Len(values) :
                  (BadEntry(i) /\ \A k \in 1..(i - 1) : ~BadEntry(k)) =>
                      LET j == FieldIndex(fields, FieldsOf(de).values[i][1])
                      IN  decoded =
                            IF Repeats(i)
                            THEN Failed(Error_custom(
                                   "duplicate field " \o Backquoted(fields[j].name)))
                            ELSE Failed(InnermostError(fields[j].ty, values[i]))
        \* the payload of a newtype-style case, read from the whole fields
        /\ (CaseSelected /\ target.cases[1].style = "newtype") =>
              LET whole == Value(ValueDef("Composite", FieldsOf(de)), 0)
              IN  ~Fits(fields[1].ty, whole) =>
                      decoded = Failed(InnermostError(fields[1].ty, whole))
        \* a value with every declared field, or an error and nothing else
        /\ decoded.ok => Len(decoded.val.vals) = Len(fields)
        /\ ~decoded.ok => IsErr(decoded.val)

\* C13: an error raised by the core or by a callback of the target, at any
\* nesting depth, is the result of the outermost decode, unchanged: the
\* core's own errors under every wrapper, the errors of the bit-sequence
\* extraction, and the errors of the target's visitors at the target, at a
\* field, at the payload of a case and at the elements of sequences inside
\* them.  Nothing is retried, replaced by another representation or
\* returned in part.
ErrorPropagation ==
    /\ CoreErrorsReturned
    /\ ExtractionErrorsReturned
    /\ TargetErrorsReturned

\* the struct Foo { a: Vec<Vec<u8>> } was decoded by name from a Value
\* whose entry a holds two sequences, the second with a bool after a byte:
\* the u8 visitor's refusal of the bool, three levels down, is the result
ErrorPropagationWitness ==
    /\ target /= None /\ Decoded
    /\ target = StructTarget("Foo", FieldsVecVec)
    /\ de.kind = "Value" /\ ByName
    /\ Len(FieldsOf(de).values) = 1
    /\ FieldsOf(de).values[1][2] =
          Value_unnamed_composite(
            <<Value_unnamed_composite(<<Value_u8(1), Value_u8(2)>>),
              Value_unnamed_composite(<<Value_u8(1), Value_bool(TRUE)>>)>>)
    /\ decoded = Failed(Error_custom(
          "invalid type: boolean " \o Backquoted("true") \o ", expected u8"))

=============================================================================
